---------------------------- MODULE Spec2Model ----------------------------
(***************************************************************************)
(* Model of the curiosity-intelligence core:                               *)
(*   analysis/signal_detector.py  (SignalDetector, CuriositySignal)        *)
(*   analysis/news_correlator.py  (NewsCorrelator.find_trigger)            *)
(*   processing/clusterer.py      (QuestionClusterer, QuestionCluster)     *)
(*   processing/embedder.py       (QuestionEmbedder.embed_batch)           *)
(*   database/db.py               (Database.save_run)                      *)
(*   pipeline.py                  (CuriosityPipeline.run)                  *)
(*   run_full_pipeline.py         (run_full_pipeline)                      *)
(*                                                                         *)
(* Python floats are modelled as exact rationals [n, d] in lowest terms;   *)
(* rounding error of IEEE doubles is not modelled.  Python ints are        *)
(* unbounded, so are the integers here.                                    *)
(***************************************************************************)
EXTENDS Integers, Sequences, FiniteSets, TLC

(***************************************************************************)
(* Bounds of the model.                                                    *)
(***************************************************************************)
\* largest len(cluster.questions) of a scored cluster
MaxCount == 4
\* largest historical member count stored under a key
MaxHist == 4
\* number of platform names
MaxPlatforms == 3
\* total_engagement ranges over -EngagementStep .. MaxEngSteps * EngagementStep
MaxEngSteps == 4
EngagementStep == 25
\* longest cluster list handed to detect / get_weird_picks
MaxClusters == 2
\* longest question list handed to QuestionClusterer.cluster
MaxQuestions == 4
\* longest text list handed to embed_batch
MaxTexts == 4
\* articles in one answer of the news search
MaxArticles == 3
\* pieces a raw text is put together from
MaxPieces == 4
\* concurrent callers of one CircuitBreaker
MaxCallers == 2
\* the clock of the circuit breaker runs from 0 to MaxTime
MaxTime == 4
\* CircuitBreaker.reset_timeout, scaled down from 60.0
ResetTimeout == 1
\* max_attempts of the RetryConfig objects passed to with_retry by hand
MaxAttempts == 2
\* rows of the subscribers table, the referrer's row included
MaxRows == 3
\* gunicorn workers serving confirm requests at the same time
MaxWorkers == 2
\* QuestionEmbedder.BATCH_SIZE, scaled down from the 100 of the source so
\* that a list of MaxTexts texts spans several batches
BatchSize == 2

(***************************************************************************)
(* Program constants (all scores in hundredths).                           *)
(***************************************************************************)
WEIGHT_VELOCITY == 35
WEIGHT_CROSS_PLATFORM == 25
WEIGHT_ENGAGEMENT == 20
WEIGHT_NOVELTY == 20
MAX_WEIRDNESS_BONUS == 20
TIER_BREAKOUT == 85
TIER_STRONG == 75
TIER_SIGNAL == 70
DEFAULT_THRESHOLD == 70
NEW_CLUSTER_VELOCITY == 80
NEW_CLUSTER_PCT == 100
TWO_PLATFORM_SCORE == 70
SEEN_NOVELTY == 30
HIGH_ENGAGEMENT == 50
KEY_LEN == 50
DEFAULT_PICKS == 5
DEFAULT_MAX_SIGNALS == 10
WEIRD_PICKS_SHOWN == 3
MIN_CLUSTER_SIZE == 3
TEST_MIN_CLUSTER_SIZE == 2

(***************************************************************************)
(* Exact rationals standing for Python floats.                             *)
(***************************************************************************)
Abs(x) == IF x < 0 THEN -x ELSE x

RECURSIVE GCD(_, _)
GCD(a, b) == IF b = 0 THEN a ELSE GCD(b, a % b)

\* the rational n/d (d # 0) in lowest terms with a positive denominator
R(n, d) ==
    LET g == GCD(Abs(n), Abs(d))
        s == IF d < 0 THEN -1 ELSE 1
    IN  [n |-> s * (n \div g), d |-> Abs(d) \div g]

Pct(p) == R(p, 100)
Zero == R(0, 1)
One == R(1, 1)
RAdd(x, y) == R(x.n * y.d + y.n * x.d, x.d * y.d)
RMul(x, y) == R(x.n * y.n, x.d * y.d)
RLeq(x, y) == x.n * y.d <= y.n * x.d
RLess(x, y) == x.n * y.d < y.n * x.d
RMin(x, y) == IF RLeq(x, y) THEN x ELSE y
RMax(x, y) == IF RLeq(x, y) THEN y ELSE x

(***************************************************************************)
(* Strings are sequences of one-character strings.                         *)
(***************************************************************************)
LowerChar(ch) ==
    CASE ch = "A" -> "a"
      [] ch = "B" -> "b"
      [] ch = "Z" -> "z"
      [] OTHER -> ch

\* str.lower()
Lower(s) == [i \in 1..Len(s) |-> LowerChar(s[i])]

\* s[:k]
Take(s, k) == SubSeq(s, 1, IF Len(s) < k THEN Len(s) ELSE k)

\* str.strip(): drop leading and trailing whitespace
RECURSIVE LStrip(_)
LStrip(s) == IF s # <<>> /\ Head(s) = " " THEN LStrip(Tail(s)) ELSE s

RECURSIVE RStrip(_)
RStrip(s) ==
    IF s # <<>> /\ s[Len(s)] = " " THEN RStrip(SubSeq(s, 1, Len(s) - 1)) ELSE s

Strip(s) == RStrip(LStrip(s))

Spaces(k) == [i \in 1..k |-> " "]

\* the one key the historical store may hold
HistKey == <<"a", "b">>

\* canonical questions: two spellings of the stored key, one whose first
\* KEY_LEN characters strip down to the stored key, and two other topics
LongQuestion == <<"A", "b">> \o Spaces(KEY_LEN - 2) \o <<"z", "z">>
CanonicalQuestions ==
    { <<"a", "b">>, <<" ", "A", "B", " ">>, LongQuestion, <<"z">>, <<"a", "b", "z">> }

(***************************************************************************)
(* Input domains.                                                          *)
(***************************************************************************)
Platforms == 1..MaxPlatforms
\* platform_counts is modelled by the set of its keys: the detector reads
\* only len(platform_counts) and platform_counts.keys()
PlatformSets == {1..k : k \in 0..MaxPlatforms}

\* total_engagement is sum(upvotes + comments) over the members
\* (clusterer.py 155-159); a post score (upvotes) may be negative
Engagements == {k * EngagementStep : k \in -1..MaxEngSteps}

\* historical_data: empty, or the stored key with a member count
EmptyHist == [k \in {} |-> 0]
HistoricalChoices == {EmptyHist} \cup {[k \in {HistKey} |-> h] : h \in 0..MaxHist}

Thresholds == {Pct(50), Pct(DEFAULT_THRESHOLD), Pct(90)}

QuestionCluster(id, q, nq, pc, te) ==
    [cluster_id |-> id, canonical_question |-> q, question_count |-> nq,
     platform_counts |-> pc, total_engagement |-> te]

\* QuestionCluster.cross_platform_count
cross_platform_count(c) == Cardinality(c.platform_counts)

(***************************************************************************)
(* SignalDetector: the scoring functions.                                  *)
(***************************************************************************)
\* _get_cluster_key
GetClusterKey(c) == Strip(Lower(Take(c.canonical_question, KEY_LEN)))

\* mutant of HistoricalCount: a missing key counted as this week's count
HistoricalCount_DefaultsToCurrent(c, hist) ==
    IF GetClusterKey(c) \in DOMAIN hist THEN hist[GetClusterKey(c)]
    ELSE c.question_count

\* historical_data.get(key, 0)
HistoricalCount(c, hist) ==
    IF GetClusterKey(c) \in DOMAIN hist THEN hist[GetClusterKey(c)] ELSE 0

\* mutant of CalcVelocity: a shrinking cluster scored on the growth slope
CalcVelocity_OneSlope(c, hist) ==
    LET current_count == c.question_count
        historical_count == HistoricalCount(c, hist)
    IN  IF historical_count = 0
        THEN <<Pct(NEW_CLUSTER_VELOCITY), R(NEW_CLUSTER_PCT, 1)>>
        ELSE LET pct_change == R((current_count - historical_count) * 100, historical_count)
                 score == IF RLeq(R(100, 1), pct_change) THEN One
                          ELSE RMax(Zero, RAdd(R(1, 2), RMul(pct_change, R(1, 200))))
             IN  <<score, pct_change>>

\* mutant of CalcVelocity: a cluster without history scored as unchanged
CalcVelocity_NewIsFlat(c, hist) ==
    LET current_count == c.question_count
        historical_count == HistoricalCount(c, hist)
    IN  IF historical_count = 0
        THEN <<R(1, 2), Zero>>
        ELSE LET pct_change == R((current_count - historical_count) * 100, historical_count)
                 score == IF RLeq(R(100, 1), pct_change) THEN One
                          ELSE IF RLeq(Zero, pct_change)
                               THEN RAdd(R(1, 2), RMul(pct_change, R(1, 200)))
                               ELSE RMax(Zero, RAdd(R(1, 2), RMul(pct_change, R(1, 100))))
             IN  <<score, pct_change>>

\* _calc_velocity: <<score, pct_change>>
CalcVelocity(c, hist) ==
    LET current_count == c.question_count
        historical_count == HistoricalCount(c, hist)
    IN  IF historical_count = 0
        THEN <<Pct(NEW_CLUSTER_VELOCITY), R(NEW_CLUSTER_PCT, 1)>>
        ELSE LET pct_change == R((current_count - historical_count) * 100, historical_count)
                 score == IF RLeq(R(100, 1), pct_change) THEN One
                          ELSE IF RLeq(Zero, pct_change)
                               THEN RAdd(R(1, 2), RMul(pct_change, R(1, 200)))
                               ELSE RMax(Zero, RAdd(R(1, 2), RMul(pct_change, R(1, 100))))
             IN  <<score, pct_change>>

\* _calc_cross_platform
CalcCrossPlatform(c) ==
    LET count == cross_platform_count(c)
    IN  IF count >= 3 THEN One
        ELSE IF count = 2 THEN Pct(TWO_PLATFORM_SCORE)
        ELSE Zero

\* _calc_engagement
CalcEngagement(c, maxE) ==
    IF maxE = 0 THEN Zero
    ELSE RMin(One, R(c.total_engagement, maxE))

\* mutant of CalcNovelty: every cluster taken for new
CalcNovelty_AlwaysNew(c, hist) == One

\* _calc_novelty
CalcNovelty(c, hist) ==
    IF GetClusterKey(c) \notin DOMAIN hist THEN One ELSE Pct(SEEN_NOVELTY)

\* _calc_weirdness raises ZeroDivisionError at line 272
WeirdnessRaises(c) ==
    Cardinality(c.platform_counts) < 3 /\ c.question_count = 0

\* _calc_weirdness (where it does not raise)
CalcWeirdness(c) ==
    IF Cardinality(c.platform_counts) >= 3 THEN Pct(MAX_WEIRDNESS_BONUS)
    ELSE IF RLess(R(HIGH_ENGAGEMENT, 1), R(c.total_engagement, c.question_count))
         THEN RMul(Pct(MAX_WEIRDNESS_BONUS), R(1, 2))
         ELSE Zero

\* mutant of TierOf: the strong test placed ahead of the breakout test
TierOf_StrongFirst(score) ==
    IF RLeq(Pct(TIER_STRONG), score) THEN "strong"
    ELSE IF RLeq(Pct(TIER_BREAKOUT), score) THEN "breakout"
    ELSE IF RLeq(Pct(TIER_SIGNAL), score) THEN "signal"
    ELSE "noise"

\* the tier assignment of _score_cluster (lines 178-186)
TierOf(score) ==
    IF RLeq(Pct(TIER_BREAKOUT), score) THEN "breakout"
    ELSE IF RLeq(Pct(TIER_STRONG), score) THEN "strong"
    ELSE IF RLeq(Pct(TIER_SIGNAL), score) THEN "signal"
    ELSE "noise"

\* the weighted sum of _score_cluster (lines 167-173)
WeightedSum(v, x, e, n, w) ==
    RAdd(RAdd(RAdd(RAdd(RMul(v, Pct(WEIGHT_VELOCITY)),
                        RMul(x, Pct(WEIGHT_CROSS_PLATFORM))),
                   RMul(e, Pct(WEIGHT_ENGAGEMENT))),
              RMul(n, Pct(WEIGHT_NOVELTY))),
         w)

\* the clamp of _score_cluster (line 176)
Clamp(x) == RMin(One, RMax(Zero, x))

\* mutant of IsSignal: the tier threshold used for the configured one
IsSignal_TierThreshold(score, thr) == RLeq(Pct(TIER_SIGNAL), score)

\* line 188
IsSignal(score, thr) == RLeq(thr, score)

\* _score_cluster raises iff _calc_weirdness does
ScoreRaises(c) == WeirdnessRaises(c)

\* _score_cluster (where it does not raise)
ScoreCluster(c, thr, hist, maxE) ==
    LET vel == CalcVelocity(c, hist)
        x == CalcCrossPlatform(c)
        e == CalcEngagement(c, maxE)
        n == CalcNovelty(c, hist)
        w == CalcWeirdness(c)
        final == Clamp(WeightedSum(vel[1], x, e, n, w))
    IN  [cluster_id |-> c.cluster_id,
         canonical_question |-> c.canonical_question,
         velocity_score |-> vel[1],
         cross_platform_score |-> x,
         engagement_score |-> e,
         novelty_score |-> n,
         weirdness_bonus |-> w,
         final_score |-> final,
         tier |-> TierOf(final),
         is_signal |-> IsSignal(final, thr),
         question_count |-> c.question_count,
         platform_count |-> cross_platform_count(c),
         total_engagement |-> c.total_engagement,
         velocity_pct |-> vel[2],
         platforms |-> c.platform_counts]

(***************************************************************************)
(* SignalDetector: detect and get_weird_picks.                             *)
(***************************************************************************)
SeqMax(f) == CHOOSE m \in {f[i] : i \in DOMAIN f} : \A i \in DOMAIN f : f[i] <= m

\* max(c.total_engagement for c in clusters) or 1   (line 131)
MaxEngagementOf(cl) ==
    LET m == SeqMax([i \in DOMAIN cl |-> cl[i].total_engagement])
    IN  IF m = 0 THEN 1 ELSE m

\* max(len(c.questions) for c in clusters) or 1   (line 132)
MaxCountOf(cl) ==
    LET m == SeqMax([i \in DOMAIN cl |-> cl[i].question_count])
    IN  IF m = 0 THEN 1 ELSE m

\* insert x behind every element whose key is at least x's key
RECURSIVE InsertDesc(_, _, _)
InsertDesc(sorted, x, field) ==
    IF sorted = <<>> THEN <<x>>
    ELSE IF RLeq(x[field], Head(sorted)[field])
         THEN <<Head(sorted)>> \o InsertDesc(Tail(sorted), x, field)
         ELSE <<x>> \o sorted

\* list.sort(key=..., reverse=True): descending and stable
RECURSIVE SortDesc(_, _)
SortDesc(s, field) ==
    IF s = <<>> THEN <<>>
    ELSE InsertDesc(SortDesc(SubSeq(s, 1, Len(s) - 1), field), s[Len(s)], field)

\* some _score_cluster call of the loop raises
AnyRaises(cl) == \E i \in DOMAIN cl : ScoreRaises(cl[i])

\* the signals of detect's loop (lines 135-138)
ScoreAll(cl, thr, hist, maxE) ==
    [i \in DOMAIN cl |-> ScoreCluster(cl[i], thr, hist, maxE)]

\* mutant of DetectResult: the sort left out
DetectResult_Unsorted(cl, thr, hist) ==
    IF cl = <<>> THEN <<>>
    ELSE ScoreAll(cl, thr, hist, MaxEngagementOf(cl))

\* the list detect returns (where it does not raise)
DetectResult(cl, thr, hist) ==
    IF cl = <<>> THEN <<>>
    ELSE SortDesc(ScoreAll(cl, thr, hist, MaxEngagementOf(cl)), "final_score")

\* mutant of IsWeirdPick: the is_signal test left out
IsWeirdPick_AnyWeird(s) == RLess(Zero, s.weirdness_bonus)

\* the filter of get_weird_picks (line 299)
IsWeirdPick(s) == RLess(Zero, s.weirdness_bonus) /\ ~s.is_signal

\* the loop of get_weird_picks (lines 295-300) over the scored clusters
RECURSIVE KeepWeird(_)
KeepWeird(s) ==
    IF s = <<>> THEN <<>>
    ELSE (IF IsWeirdPick(Head(s)) THEN <<Head(s)>> ELSE <<>>) \o KeepWeird(Tail(s))

\* the list get_weird_picks returns (where it does not raise)
WeirdPicksResult(cl, k, thr, hist, maxE) ==
    Take(SortDesc(KeepWeird(ScoreAll(cl, thr, hist, maxE)),
                  "weirdness_bonus"), k)

(***************************************************************************)
(* QuestionClusterer: cluster and _build_cluster.                          *)
(***************************************************************************)
\* a question dict as cluster() reads it
Question(id, text, emb, platform, up, com) ==
    [external_id |-> id, normalized_text |-> text, embedding |-> emb,
     platform |-> platform, upvotes |-> up, comments |-> com]

\* the questions of the model: two tight groups in the plane, the member
\* nearest to the mean of the first group is its third question, and the
\* last two questions carry the same embedding
QuestionPool ==
    << Question(1, <<"a">>, <<0, 0>>, 1, 1, 0),
       Question(2, <<"b">>, <<4, 0>>, 2, 5, 1),
       Question(3, <<"c">>, <<2, 1>>, 1, 0, 0),
       Question(4, <<"d">>, <<8, 8>>, 3, 7, 0),
       Question(5, <<"e">>, <<8, 8>>, 1, 2, 2) >>

\* mutant of FitPredict: min_cluster_size not handed to HDBSCAN
FitPredict_NoFloor(n, mcs) ==
    { lab \in [1..n -> -1..(n - 1)] :
        \A l \in 0..(n - 1) :
            (\E i \in 1..n : lab[i] = l)
                => \A m \in 0..l : \E i \in 1..n : lab[i] = m }

\* HDBSCAN(min_cluster_size=mcs, ...).fit_predict over n rows: a label per
\* row, -1 for noise, the clusters numbered 0..k-1, none of fewer than mcs
\* rows.  Which rows fall together is the library's choice.
FitPredict(n, mcs) ==
    { lab \in [1..n -> -1..((n \div mcs) - 1)] :
        \A l \in 0..((n \div mcs) - 1) :
            (\E i \in 1..n : lab[i] = l)
                => /\ Cardinality({i \in 1..n : lab[i] = l}) >= mcs
                   /\ \A m \in 0..l : \E i \in 1..n : lab[i] = m }

\* mutant of ClusterLabels: the noise test of line 111 left out
ClusterLabels_KeepNoise(lab) == {lab[i] : i \in DOMAIN lab}

\* the keys of cluster_map (lines 109-116)
ClusterLabels(lab) == {lab[i] : i \in DOMAIN lab} \ {-1}

\* the first row that carries label l
FirstSeen(lab, l) ==
    CHOOSE i \in DOMAIN lab : lab[i] = l /\ \A j \in 1..(i - 1) : lab[j] # l

\* cluster_map.items() runs over the keys in insertion order
RECURSIVE LabelOrder(_, _)
LabelOrder(lab, S) ==
    IF S = {} THEN <<>>
    ELSE LET l == CHOOSE x \in S :
                     \A y \in S : FirstSeen(lab, x) <= FirstSeen(lab, y)
         IN  <<l>> \o LabelOrder(lab, S \ {l})

\* the rows of s whose label is l, in order: cluster_map[l], and
\* all_embeddings[labels == l]
RECURSIVE Labelled(_, _, _)
Labelled(s, lab, l) ==
    IF s = <<>> THEN <<>>
    ELSE (IF Head(lab) = l THEN <<Head(s)>> ELSE <<>>)
             \o Labelled(Tail(s), Tail(lab), l)

RECURSIVE RSum(_)
RSum(s) == IF s = <<>> THEN Zero ELSE RAdd(Head(s), RSum(Tail(s)))

RSub(x, y) == RAdd(x, RMul(R(-1, 1), y))

\* np.mean(rows, axis=0)
Mean(rows) ==
    [k \in DOMAIN rows[1] |->
        RMul(RSum([i \in DOMAIN rows |-> R(rows[i][k], 1)]), R(1, Len(rows)))]

\* the square of np.linalg.norm(row - centroid); the norm itself is its
\* root, which orders the rows the same way
SquaredNorm(row, centroid) ==
    RSum([k \in DOMAIN row |->
            RMul(RSub(R(row[k], 1), centroid[k]),
                 RSub(R(row[k], 1), centroid[k]))])

\* mutant of ArgMin: the first member taken as canonical
ArgMin_First(d) == 1

\* np.argmin: the first index of a smallest entry
ArgMin(d) ==
    CHOOSE i \in DOMAIN d :
        /\ \A j \in DOMAIN d : RLeq(d[i], d[j])
        /\ \A j \in 1..(i - 1) : RLess(d[i], d[j])

RECURSIVE EngagementSum(_)
EngagementSum(qs) ==
    IF qs = <<>> THEN 0
    ELSE Head(qs).upvotes + Head(qs).comments + EngagementSum(Tail(qs))

\* _build_cluster(cluster_id, questions, all_embeddings, labels): the
\* QuestionCluster with its members and its centroid
BuildCluster(cluster_id, qs, embs, lab) ==
    LET cluster_embeddings == Labelled(embs, lab, cluster_id)
        centroid == Mean(cluster_embeddings)
        distances == [i \in DOMAIN cluster_embeddings |->
                         SquaredNorm(cluster_embeddings[i], centroid)]
        canonical_idx == ArgMin(distances)
    IN  QuestionCluster(cluster_id, qs[canonical_idx].normalized_text, Len(qs),
                        {qs[i].platform : i \in DOMAIN qs}, EngagementSum(qs))
          @@ [questions |-> qs, centroid |-> centroid]

\* insert x behind every cluster of at least its engagement
RECURSIVE InsertByEngagement(_, _)
InsertByEngagement(sorted, x) ==
    IF sorted = <<>> THEN <<x>>
    ELSE IF x.total_engagement <= Head(sorted).total_engagement
         THEN <<Head(sorted)>> \o InsertByEngagement(Tail(sorted), x)
         ELSE <<x>> \o sorted

\* clusters.sort(key=total_engagement, reverse=True)   (line 125)
RECURSIVE SortByEngagement(_)
SortByEngagement(s) ==
    IF s = <<>> THEN <<>>
    ELSE InsertByEngagement(SortByEngagement(SubSeq(s, 1, Len(s) - 1)),
                            s[Len(s)])

\* what cluster(qs) returns when fit_predict answers lab
ClusterResult(qs, mcs, lab) ==
    IF qs = <<>> \/ Len(qs) < mcs THEN <<>>
    ELSE LET embs == [i \in DOMAIN qs |-> qs[i].embedding]
             order == LabelOrder(lab, ClusterLabels(lab))
         IN  SortByEngagement(
                 [i \in DOMAIN order |->
                     BuildCluster(order[i], Labelled(qs, lab, order[i]),
                                  embs, lab)])

(***************************************************************************)
(* QuestionEmbedder.embed_batch.                                           *)
(***************************************************************************)
\* Python's None: the empty tuple, which is no embedding, no text of an
\* article and no trigger dict of the model
None == <<>>

\* the texts handed to embed_batch
EmbedTexts == {QuestionPool[i].normalized_text : i \in {1, 2, 4}}

\* the vector the embedding service computes for a text
ServiceEmbedding(t) ==
    QuestionPool[CHOOSE i \in DOMAIN QuestionPool :
                    QuestionPool[i].normalized_text = t].embedding

\* texts[i:i + BATCH_SIZE]
Batch(ts, i) ==
    SubSeq(ts, i + 1, IF i + BatchSize < Len(ts) THEN i + BatchSize ELSE Len(ts))

\* response.data as the service may send it for a batch: an item (index,
\* embedding) for some or all of the inputs, in any order
Responses(batch) ==
    UNION { { [j \in 1..k |->
                 [index |-> ix[j] - 1, embedding |-> ServiceEmbedding(batch[ix[j]])]] :
              ix \in { f \in [1..k -> DOMAIN batch] :
                         \A a, b \in 1..k : a # b => f[a] # f[b] } } :
            k \in 0..Len(batch) }

\* mutant of PlaceItems: the embeddings kept in the order of arrival
PlaceItems_ArrivalOrder(slots, data) ==
    [i \in DOMAIN slots |-> IF i <= Len(data) THEN data[i].embedding ELSE None]

\* lines 78-80: batch_embeddings[item.index] = item.embedding for each item
RECURSIVE PlaceItems(_, _)
PlaceItems(slots, data) ==
    IF data = <<>> THEN slots
    ELSE PlaceItems([slots EXCEPT ![Head(data).index + 1] = Head(data).embedding],
                    Tail(data))

\* [None] * len(batch)
NoneList(n) == [i \in 1..n |-> None]

(***************************************************************************)
(* NewsCorrelator.find_trigger.                                            *)
(***************************************************************************)
\* what the request of _search_news does: it raises, answers with a status
\* other than 200, answers 200 with no article, with an article, or with an
\* article whose description is null
SearchOutcomes == {"error", "status", "no_articles", "article", "null_field"}

Article(title, description) ==
    [title |-> title, description |-> description, url |-> <<"u">>]

\* _search_news (lines 93-123)
SearchNews(outcome) ==
    CASE outcome = "error" -> [raised |-> TRUE, articles |-> <<>>]
      [] outcome = "status" -> [raised |-> FALSE, articles |-> <<>>]
      [] outcome = "no_articles" -> [raised |-> FALSE, articles |-> <<>>]
      [] outcome = "article" ->
           [raised |-> FALSE, articles |-> <<Article(<<"n">>, <<"n">>)>>]
      [] outcome = "null_field" ->
           [raised |-> FALSE, articles |-> <<Article(<<"n">>, None)>>]

\* _extract_keywords: the questions of the model name no known entity and
\* hold no quoted phrase and no capitalised word, which leaves the fallback
\* of lines 149-153
ExtractKeywords(question) == <<"AI">>

\* the characters \w does not match, of those the texts of the model hold
NonWordChars == {" ", "?", ".", "!", "[", "]"}

\* re.findall(r'\b\w{4,}\b', s) as a set: the maximal runs of word
\* characters that are at least 4 long
Words(s) ==
    { SubSeq(s, p[1], p[2]) :
        p \in { q \in (DOMAIN s) \X (DOMAIN s) :
                  /\ q[2] - q[1] + 1 >= 4
                  /\ \A k \in q[1]..q[2] : s[k] \notin NonWordChars
                  /\ q[1] = 1 \/ s[q[1] - 1] \in NonWordChars
                  /\ q[2] = Len(s) \/ s[q[2] + 1] \in NonWordChars } }

\* word in text, on strings
Contains(text, word) ==
    \E i \in 1..(Len(text) - Len(word) + 1) :
        SubSeq(text, i, i + Len(word) - 1) = word

\* _calc_relevance calls .lower() on the title and the description
CalcRelevanceRaises(article) ==
    article.title = None \/ article.description = None

\* _calc_relevance (lines 157-177), where it does not raise
CalcRelevance(question, article) ==
    LET title == Lower(article.title)
        description == Lower(article.description)
        words == Words(Lower(question))
        hits(w) == (IF Contains(title, w) THEN 2 ELSE 0)
                     + (IF Contains(description, w) THEN 1 ELSE 0)
        RECURSIVE count(_)
        count(S) == IF S = {} THEN 0
                    ELSE LET w == CHOOSE x \in S : TRUE
                         IN  hits(w) + count(S \ {w})
        matches == count(words)
    IN  RMin(One, R(matches, IF words = {} THEN 1 ELSE Cardinality(words)))

\* mutant of FindTrigger: the try of lines 69-91 left out
FindTrigger_NoTry(api_key, question, found) ==
    IF ~api_key \/ ExtractKeywords(question) = <<>>
    THEN [raised |-> FALSE, value |-> None]
    ELSE IF found.raised THEN [raised |-> TRUE, value |-> None]
    ELSE IF found.articles = <<>> THEN [raised |-> FALSE, value |-> None]
    ELSE IF CalcRelevanceRaises(found.articles[1])
         THEN [raised |-> TRUE, value |-> None]
         ELSE [raised |-> FALSE,
               value |-> [headline |-> found.articles[1].title,
                          url |-> found.articles[1].url,
                          relevance_score |->
                              CalcRelevance(question, found.articles[1])]]

\* find_trigger(question, week_start) when _search_news does found (it
\* raises, or returns a list of articles): whether find_trigger raises,
\* and what it returns.  best is articles[0] (line 80).
FindTrigger(api_key, question, found) ==
    IF ~api_key \/ ExtractKeywords(question) = <<>>
    THEN [raised |-> FALSE, value |-> None]
    ELSE IF found.raised THEN [raised |-> FALSE, value |-> None]
    ELSE IF found.articles = <<>> THEN [raised |-> FALSE, value |-> None]
    ELSE IF CalcRelevanceRaises(found.articles[1])
         THEN [raised |-> FALSE, value |-> None]
         ELSE [raised |-> FALSE,
               value |-> [headline |-> found.articles[1].title,
                          url |-> found.articles[1].url,
                          relevance_score |->
                              CalcRelevance(question, found.articles[1])]]

(***************************************************************************)
(* QuestionNormalizer.normalize.  The texts of the model are written with  *)
(* letters, the space and [ ] ? . ! only: the patterns that need another   *)
(* character ( "(" "/" ":" "*" "~" "`" "-" or a digit ) match nowhere in   *)
(* them nor in what normalize makes of them, and are left out.             *)
(***************************************************************************)
\* the positions of ch in s
Positions(s, ch) == {i \in DOMAIN s : s[i] = ch}

\* the least element of a set of numbers that is not empty
Least(S) == CHOOSE i \in S : \A j \in S : i <= j

\* s without the positions i for which drop[i] holds
Without(s, drop) ==
    LET kept[i \in 0..Len(s)] ==
            IF i = 0 THEN <<>>
            ELSE IF drop[i] THEN kept[i - 1] ELSE Append(kept[i - 1], s[i])
    IN  kept[Len(s)]

\* re.sub(r"^\[.*?\]\s*", "", s): a flair at the start, up to its first ]
\* and the whitespace behind it
SubLeadingFlair(s) ==
    IF s = <<>> \/ Head(s) # "[" \/ Positions(s, "]") = {} THEN s
    ELSE LStrip(SubSeq(s, Least(Positions(s, "]")) + 1, Len(s)))

\* re.sub(r"\s*\[.*?\]\s*$", "", s): the leftmost match begins with the
\* whitespace before the first [ and, .*? growing as far as it must,
\* reaches the ] that only whitespace follows
SubTrailingFlair(s) ==
    LET t == RStrip(s)
    IN  IF t = <<>> \/ t[Len(t)] # "]" \/ Positions(t, "[") = {} THEN s
        ELSE RStrip(SubSeq(s, 1, Least(Positions(t, "[")) - 1))

\* PLATFORM_ARTIFACTS[platform] applied in order (lines 90-92); the
\* stackexchange tags need letters the texts do not hold
RemoveArtifacts(s, platform) ==
    IF platform = "reddit" THEN SubTrailingFlair(SubLeadingFlair(s)) ELSE s

\* re.sub(r"\b<abbrev>\b", expansion, s, flags=re.IGNORECASE) from position
\* i on: a maximal run of word characters that is abbrev is replaced
RECURSIVE ExpandFrom(_, _, _, _)
ExpandFrom(s, i, abbrev, expansion) ==
    IF i > Len(s) THEN <<>>
    ELSE IF s[i] \in NonWordChars
         THEN <<s[i]>> \o ExpandFrom(s, i + 1, abbrev, expansion)
         ELSE LET ends == {j \in i..Len(s) :
                             j = Len(s) \/ s[j + 1] \in NonWordChars}
                  j == Least(ends)
                  word == SubSeq(s, i, j)
              IN  (IF Lower(word) = abbrev THEN expansion ELSE word)
                      \o ExpandFrom(s, j + 1, abbrev, expansion)

\* ABBREVIATIONS applied in order (lines 99-100): the keys llm, ml and ai;
\* no word of the texts or of the expansions spells another key
ExpandAbbreviations(s) ==
    LET llm == ExpandFrom(s, 1, <<"l", "l", "m">>,
                   <<"l", "a", "r", "g", "e", " ", "l", "a", "n", "g", "u",
                     "a", "g", "e", " ", "m", "o", "d", "e", "l">>)
        ml == ExpandFrom(llm, 1, <<"m", "l">>,
                   <<"m", "a", "c", "h", "i", "n", "e", " ", "l", "e", "a",
                     "r", "n", "i", "n", "g">>)
    IN  ExpandFrom(ml, 1, <<"a", "i">>,
                   <<"a", "r", "t", "i", "f", "i", "c", "i", "a", "l", " ",
                     "i", "n", "t", "e", "l", "l", "i", "g", "e", "n", "c",
                     "e">>)

\* " ".join(s.split())
NormalizeWhitespace(s) ==
    LET t == Strip(s)
    IN  Without(t, [i \in DOMAIN t |-> t[i] = " " /\ t[i - 1] = " "])

\* lines 106-108: ?? and longer to ?, !! and longer to !, .... and longer
\* to ...
RemoveExcessivePunctuation(s) ==
    LET q == Without(s, [i \in DOMAIN s |->
                           i > 1 /\ s[i] = "?" /\ s[i - 1] = "?"])
        e == Without(q, [i \in DOMAIN q |->
                           i > 1 /\ q[i] = "!" /\ q[i - 1] = "!"])
    IN  Without(e, [i \in DOMAIN e |->
                      i > 3 /\ \A k \in (i - 3)..i : e[k] = "."])

question_starters ==
    { <<"w", "h", "a", "t">>, <<"w", "h", "y">>, <<"h", "o", "w">>,
      <<"w", "h", "e", "n">>, <<"w", "h", "e", "r", "e">>, <<"w", "h", "o">>,
      <<"w", "h", "i", "c", "h">>, <<"c", "a", "n">>,
      <<"c", "o", "u", "l", "d">>, <<"w", "o", "u", "l", "d">>,
      <<"s", "h", "o", "u", "l", "d">>, <<"w", "i", "l", "l">>, <<"i", "s">>,
      <<"a", "r", "e">>, <<"d", "o">>, <<"d", "o", "e", "s">>,
      <<"h", "a", "s">>, <<"h", "a", "v", "e">>, <<"a", "m">>,
      <<"w", "a", "s">>, <<"w", "e", "r", "e">> }

\* _is_question_structure
IsQuestionStructure(text) ==
    LET t == LStrip(text)
        first_word == IF t = <<>> THEN <<>>
                      ELSE IF Positions(t, " ") = {} THEN Lower(t)
                      ELSE Lower(SubSeq(t, 1, Least(Positions(t, " ")) - 1))
    IN  first_word \in question_starters \/ Positions(text, "?") # {}

\* s.rstrip(".!")
RECURSIVE RStripMarks(_)
RStripMarks(s) ==
    IF s # <<>> /\ s[Len(s)] \in {".", "!"}
    THEN RStripMarks(SubSeq(s, 1, Len(s) - 1)) ELSE s

\* normalize(text, platform) with lowercase=False (lines 64-114)
Normalize(text, platform) ==
    IF text = <<>> THEN <<>>
    ELSE LET cleaned == RemoveArtifacts(Strip(text), platform)
             spaced == NormalizeWhitespace(ExpandAbbreviations(cleaned))
             result == RemoveExcessivePunctuation(spaced)
             marked == IF IsQuestionStructure(result)
                           /\ (result = <<>> \/ result[Len(result)] # "?")
                       THEN RStripMarks(result) \o <<"?">>
                       ELSE result
         IN  Strip(marked)

(***************************************************************************)
(* CuriositySignal.to_dict.                                                *)
(***************************************************************************)
RECURSIVE Pow10(_)
Pow10(k) == IF k = 0 THEN 1 ELSE 10 * Pow10(k - 1)

\* round(x, ndigits): to the nearest multiple of 10^-ndigits, an exact half
\* to the even neighbour (a double decides such a case by its binary value)
Round(x, ndigits) ==
    LET scaled == x.n * Pow10(ndigits)
        q == scaled \div x.d
        r == scaled % x.d
    IN  R(IF 2 * r > x.d \/ (2 * r = x.d /\ q % 2 = 1) THEN q + 1 ELSE q,
          Pow10(ndigits))

\* to_dict (lines 48-68) of a signal whose news_trigger is news;
\* sample_questions is not modelled
ToDict(s, news) ==
    [question |-> s.canonical_question,
     score |-> Round(s.final_score, 3),
     tier |-> s.tier,
     is_signal |-> s.is_signal,
     velocity_pct |-> Round(s.velocity_pct, 1),
     platforms |-> s.platforms,
     platform_count |-> s.platform_count,
     question_count |-> s.question_count,
     engagement |-> s.total_engagement,
     breakdown |-> [velocity |-> Round(s.velocity_score, 3),
                    cross_platform |-> Round(s.cross_platform_score, 3),
                    engagement |-> Round(s.engagement_score, 3),
                    novelty |-> Round(s.novelty_score, 3),
                    weirdness |-> Round(s.weirdness_bonus, 3)],
     news_trigger |-> news]

(***************************************************************************)
(* CuriosityPipeline: _ingest_all, the output of run, Database.save_run.   *)
(***************************************************************************)
\* a record an ingester returns; mapping tells whether it is a dict (it
\* supports q["raw_text"] and **q) or an IngestedQuestion object, which is
\* what RedditIngester and StackExchangeIngester build
IngestRecord(platform, id, mapping) ==
    [platform |-> platform, external_id |-> id, mapping |-> mapping]

\* the ingesters of the pipeline: Reddit, Stack Exchange
Ingesters == 1..2

\* how many records an ingester returns when it does not raise: enough
\* for one cluster from Reddit, none or enough for the other clusters from
\* Stack Exchange
IngestSizes(p) ==
    IF p = 1 THEN {MIN_CLUSTER_SIZE}
    ELSE {0, MIN_CLUSTER_SIZE * (MaxClusters - 1)}

\* what ingest() of ingester p may do: raise, or return a list
IngestOutcomes(p) ==
    { [raised |-> TRUE, records |-> <<>>] } \cup
    { [raised |-> FALSE, records |-> [k \in 1..n |-> IngestRecord(p, k, m)]] :
        n \in IngestSizes(p), m \in BOOLEAN }

\* the results that are no exception, concatenated in ingester order
RECURSIVE Extended(_)
Extended(outcomes) ==
    IF outcomes = <<>> THEN <<>>
    ELSE (IF Head(outcomes).raised THEN <<>> ELSE Head(outcomes).records)
             \o Extended(Tail(outcomes))

\* mutant of IngestAll: gather without return_exceptions
IngestAll_Propagate(outcomes) ==
    [raised |-> \E p \in DOMAIN outcomes : outcomes[p].raised,
     questions |-> <<>>]

\* _ingest_all (lines 188-206): gather(..., return_exceptions=True), then
\* the results that are no exception extend all_questions
IngestAll(outcomes) == [raised |-> FALSE, questions |-> Extended(outcomes)]

\* the embedding embed_batch attaches to a question of the run
SomeVector == <<0, 0>>

\* the comprehension of lines 177-181 from position i on
RECURSIVE OutputFrom(_, _, _, _)
OutputFrom(sigs, news, max_signals, i) ==
    IF i > Len(sigs) \/ i > max_signals THEN <<>>
    ELSE (IF sigs[i].is_signal THEN <<ToDict(sigs[i], news[i])>> ELSE <<>>)
             \o OutputFrom(sigs, news, max_signals, i + 1)

\* mutant of OutputSignals: the is_signal test left out
OutputSignals_NoFilter(sigs, news, max_signals) ==
    [i \in DOMAIN Take(sigs, max_signals) |-> ToDict(sigs[i], news[i])]

\* [s.to_dict() for s in signals[:max_signals] if s.is_signal]
OutputSignals(sigs, news, max_signals) == OutputFrom(sigs, news, max_signals, 1)

\* the rows save_run adds, in the order it adds them
RunRow(res) ==
    [table |-> "runs", status |-> "completed",
     questions_ingested |-> res.questions_ingested,
     clusters_created |-> res.clusters_created,
     signals_detected |-> res.signals_detected]

ClusterRows(c) ==
    <<[table |-> "clusters", cluster_index |-> c.cluster_id]>>
        \o [k \in 1..c.question_count |->
               [table |-> "questions", cluster_index |-> c.cluster_id, member |-> k]]

RECURSIVE AllClusterRows(_)
AllClusterRows(cl) ==
    IF cl = <<>> THEN <<>> ELSE ClusterRows(Head(cl)) \o AllClusterRows(Tail(cl))

SignalRows(sigs, news) ==
    [i \in DOMAIN sigs |->
        [table |-> "signals", cluster_index |-> sigs[i].cluster_id,
         is_signal |-> sigs[i].is_signal, news_trigger |-> news[i]]]

RunRows(res, cl, sigs, news) ==
    <<RunRow(res)>> \o AllClusterRows(cl) \o SignalRows(sigs, news)

\* mutant of SaveRun: the rollback of line 156 left out
SaveRun_NoRollback(committed, rows, configured, fail_at) ==
    IF ~configured THEN [raised |-> FALSE, store |-> committed]
    ELSE IF fail_at = 0 THEN [raised |-> FALSE, store |-> committed \o rows]
    ELSE [raised |-> TRUE, store |-> committed \o SubSeq(rows, 1, fail_at - 1)]

\* save_run: without a configured database it saves nothing and returns;
\* else it adds the rows in one session and commits.  fail_at names the
\* statement that raises (the add and flush of row fail_at, the commit
\* behind the last row), 0 when none does; the rows flushed before it are
\* rolled back.
SaveRun(committed, rows, configured, fail_at) ==
    IF ~configured THEN [raised |-> FALSE, store |-> committed]
    ELSE IF fail_at = 0 THEN [raised |-> FALSE, store |-> committed \o rows]
    ELSE [raised |-> TRUE, store |-> committed]

(***************************************************************************)
(* State.                                                                  *)
(***************************************************************************)
VARIABLES
    mode,             \* who drives the detector: "score", "api" or "pipeline"
    threshold,        \* SignalDetector.threshold
    historical_data,  \* SignalDetector.historical_data
    max_engagement,   \* SignalDetector._max_engagement
    max_count,        \* SignalDetector._max_count
    op,               \* the call whose result is held, "idle" when none
    clusters,         \* the cluster list of that call
    count,            \* the count argument of get_weird_picks
    raised,           \* the call raised ZeroDivisionError
    signals,          \* the list the call returned
    stage,            \* position of CuriosityPipeline.run
    config,           \* PipelineConfig: max_signals, include_weird_picks
    weird,            \* run(): the list get_weird_picks returned
    results,          \* run(): the results dict
    questions,        \* the question dicts handed to QuestionClusterer.cluster
    min_cluster_size, \* QuestionClusterer.min_cluster_size
    labels,           \* the labels HDBSCAN.fit_predict returned
    texts,            \* embed_batch: its argument
    all_embeddings,   \* embed_batch: the list built so far
    batch_start,      \* embed_batch: the loop variable i
    sources,          \* what ingest() of each ingester did
    lookups,          \* step 6 of run(): what the news search did for each
                      \* signal, forgotten when step 7 begins
    news_trigger,     \* signal.news_trigger, by position in signals
    store,            \* the rows committed to the database
    correlator,       \* one find_trigger call of a NewsCorrelator
    normalizer,       \* one text taken through QuestionNormalizer.normalize
    circuit,          \* a CircuitBreaker and the calls going through it
    retry,            \* one call of a function wrapped by with_retry
    subscribers       \* the subscribers table and the requests in progress

detector == <<threshold, historical_data, max_engagement, max_count>>
call == <<op, clusters, count, raised, signals>>
run == <<stage, config, weird, results>>
clusterer == <<questions, min_cluster_size, labels>>
embedder == <<texts, all_embeddings, batch_start>>
outside == <<sources, lookups, news_trigger, store>>
services == <<correlator, normalizer, circuit, retry, subscribers>>
vars == <<mode, threshold, historical_data, max_engagement, max_count,
          op, clusters, count, raised, signals, stage, config, weird, results,
          questions, min_cluster_size, labels, texts, all_embeddings,
          batch_start, sources, lookups, news_trigger, store, correlator,
          normalizer, circuit, retry, subscribers>>

NoConfig ==
    [max_signals |-> DEFAULT_MAX_SIGNALS, include_weird_picks |-> TRUE,
     dry_run |-> FALSE]
NoResults ==
    [questions_ingested |-> 0, clusters_created |-> 0, signals_detected |-> 0,
     signals |-> <<>>, weird_picks |-> <<>>]

\* the parts of the state a specification does not use
NoDetector ==
    /\ threshold = Pct(DEFAULT_THRESHOLD)
    /\ historical_data = EmptyHist
    /\ max_engagement = 1
    /\ max_count = 1
NoRun ==
    /\ stage = "none"
    /\ config = NoConfig
    /\ weird = <<>>
    /\ results = NoResults
NoClusterer ==
    /\ questions = <<>>
    /\ min_cluster_size = MIN_CLUSTER_SIZE
    /\ labels = <<>>
NoEmbedder ==
    /\ texts = <<>>
    /\ all_embeddings = <<>>
    /\ batch_start = 0
NoOutside ==
    /\ sources = <<>>
    /\ lookups = <<>>
    /\ news_trigger = <<>>
    /\ store = <<>>
NoCall ==
    /\ op = "idle"
    /\ clusters = <<>>
    /\ count = 0
    /\ raised = FALSE
    /\ signals = <<>>
NoServices ==
    /\ correlator = <<>>
    /\ normalizer = <<>>
    /\ circuit = <<>>
    /\ retry = <<>>
    /\ subscribers = <<>>

\* the values _max_engagement takes: 1 at construction, else the largest
\* total_engagement of a detect list, 1 standing in for 0
CacheEngagements == {1} \cup (Engagements \ {0})

(***************************************************************************)
(* SpecScore: _score_cluster as a function of one cluster and the          *)
(* detector's fields.                                                      *)
(***************************************************************************)
ScoreClusters ==
    { QuestionCluster(1, q, nq, pc, te) :
        q \in CanonicalQuestions, nq \in 0..MaxCount,
        pc \in PlatformSets, te \in Engagements }

\* the worked example: 22 members against 10 last week, engagement 500 of
\* a run maximum of 1000, three platforms
ExampleCluster == QuestionCluster(1, <<"a", "b">>, 22, {1, 2, 3}, 500)
ExampleHist == [k \in {HistKey} |-> 10]
ExampleMaxEngagement == 2 * ExampleCluster.total_engagement

InitScore ==
    /\ mode = "score"
    /\ threshold \in Thresholds
    /\ historical_data \in HistoricalChoices \cup {ExampleHist}
    /\ max_engagement \in CacheEngagements \cup {ExampleMaxEngagement}
    /\ max_count = 1
    /\ op = "idle"
    /\ clusters \in {<<c>> : c \in ScoreClusters \cup {ExampleCluster}}
    /\ count = 0
    /\ raised = FALSE
    /\ signals = <<>>
    /\ NoRun
    /\ NoClusterer
    /\ NoEmbedder
    /\ NoOutside
    /\ NoServices

\* one call of _score_cluster(clusters[1])
ScoreOnce ==
    /\ mode = "score"
    /\ op = "idle"
    /\ op' = "_score_cluster"
    /\ raised' = ScoreRaises(clusters[1])
    /\ signals' = IF ScoreRaises(clusters[1]) THEN <<>>
                  ELSE <<ScoreCluster(clusters[1], threshold, historical_data,
                                      max_engagement)>>
    /\ UNCHANGED <<mode, services, detector, clusters, count, run, clusterer, embedder,
                    outside>>

NextScore == ScoreOnce

SpecScore == InitScore /\ [][NextScore]_vars

(***************************************************************************)
(* SpecCluster: one call of QuestionClusterer.cluster.                     *)
(***************************************************************************)
\* lists of distinct questions of the pool
QuestionLists ==
    UNION { { [i \in 1..k |-> QuestionPool[ix[i]]] :
              ix \in { f \in [1..k -> DOMAIN QuestionPool] :
                         \A a, b \in 1..k : a # b => f[a] # f[b] } } :
            k \in 0..MaxQuestions }

\* the default of the constructor, and the value the test builds it with
ClusterSizes == {TEST_MIN_CLUSTER_SIZE, MIN_CLUSTER_SIZE}

InitCluster ==
    /\ mode = "cluster"
    /\ NoDetector
    /\ op = "idle"
    /\ clusters = <<>>
    /\ count = 0
    /\ raised = FALSE
    /\ signals = <<>>
    /\ NoRun
    /\ questions \in QuestionLists
    /\ min_cluster_size \in ClusterSizes
    /\ labels = <<>>
    /\ NoEmbedder
    /\ NoOutside
    /\ NoServices

\* clusterer.cluster(questions), fit_predict answering lab where it is called
ClusterCall(lab) ==
    /\ mode = "cluster"
    /\ op = "idle"
    /\ op' = "cluster"
    /\ labels' = IF questions = <<>> \/ Len(questions) < min_cluster_size
                 THEN <<>> ELSE lab
    /\ clusters' = ClusterResult(questions, min_cluster_size, lab)
    /\ UNCHANGED <<mode, services, detector, count, raised, signals, run, questions,
                   min_cluster_size, embedder, outside>>

NextCluster ==
    \E lab \in FitPredict(Len(questions), min_cluster_size) : ClusterCall(lab)

SpecCluster == InitCluster /\ [][NextCluster]_vars

(***************************************************************************)
(* SpecEmbed: one call of QuestionEmbedder.embed_batch, a step for the     *)
(* entry and for each answer of the embedding service.                     *)
(***************************************************************************)
TextLists == UNION { [1..k -> EmbedTexts] : k \in 0..MaxTexts }

InitEmbed ==
    /\ mode = "embed"
    /\ NoDetector
    /\ op = "idle"
    /\ clusters = <<>>
    /\ count = 0
    /\ raised = FALSE
    /\ signals = <<>>
    /\ NoRun
    /\ NoClusterer
    /\ texts \in TextLists
    /\ all_embeddings = <<>>
    /\ batch_start = 0
    /\ NoOutside
    /\ NoServices

\* embed_batch(texts) up to its first request (lines 63-70)
EmbedBatch ==
    /\ mode = "embed"
    /\ op = "idle"
    /\ op' = IF texts = <<>> THEN "embed_batch" ELSE "create"
    /\ UNCHANGED <<mode, services, detector, clusters, count, raised, signals, run,
                   clusterer, embedder, outside>>

\* the service answers the request for the batch at batch_start with data
\* (lines 72-82), and the loop goes on or the call returns
EmbedRespond(data) ==
    /\ mode = "embed"
    /\ op = "create"
    /\ all_embeddings' =
         all_embeddings
           \o PlaceItems(NoneList(Len(Batch(texts, batch_start))), data)
    /\ batch_start' = batch_start + BatchSize
    /\ op' = IF batch_start + BatchSize < Len(texts) THEN "create"
             ELSE "embed_batch"
    /\ UNCHANGED <<mode, services, detector, clusters, count, raised, signals, run,
                   clusterer, texts, outside>>

\* the request raises, and embed_batch with it
EmbedFail ==
    /\ mode = "embed"
    /\ op = "create"
    /\ op' = "embed_batch"
    /\ raised' = TRUE
    /\ UNCHANGED <<mode, services, detector, clusters, count, signals, run, clusterer,
                   embedder, outside>>

NextEmbed ==
    \/ EmbedBatch
    \/ \E data \in Responses(Batch(texts, batch_start)) : EmbedRespond(data)
    \/ EmbedFail

SpecEmbed == InitEmbed /\ [][NextEmbed]_vars

(***************************************************************************)
(* SpecNews: one call of NewsCorrelator.find_trigger whose search is       *)
(* answered with status 200 and a list of articles.                        *)
(***************************************************************************)
\* questions of two, one and no word of 4 characters
NewsQuestions ==
    { <<"A", "B", "B", "A", " ", "z", "a", "z", "z">>,
      <<"a", "b", "b", "a">>,
      <<"a", "b">> }

\* articles of the answer, told apart by their url
NewsArticles ==
    { [Article(<<"z", "z">>, <<"z", "z">>) EXCEPT !.url = <<"1">>],
      [Article(<<"A", "b", "b", "a">>, <<"z", "z">>) EXCEPT !.url = <<"2">>],
      [Article(<<"z", "z">>, <<"z", "a", "z", "z">>) EXCEPT !.url = <<"3">>],
      [Article(<<"a", "b", "b", "a", " ", "z", "a", "z", "z">>,
               <<"a", "b", "b", "a">>) EXCEPT !.url = <<"4">>] }

InitNews ==
    /\ mode = "news"
    /\ NoDetector
    /\ NoCall
    /\ NoRun
    /\ NoClusterer
    /\ NoEmbedder
    /\ NoOutside
    /\ correlator \in
         [api_key : BOOLEAN, question : NewsQuestions,
          articles : UNION { [1..k -> NewsArticles] : k \in 0..MaxArticles },
          returned : {FALSE}, value : {None}]
    /\ normalizer = <<>>
    /\ circuit = <<>>
    /\ retry = <<>>
    /\ subscribers = <<>>

\* find_trigger(question, week_start)
FindTriggerCall ==
    /\ mode = "news"
    /\ ~correlator.returned
    /\ correlator' =
         [correlator EXCEPT
            !.returned = TRUE,
            !.value = FindTrigger(correlator.api_key, correlator.question,
                                  [raised |-> FALSE,
                                   articles |-> correlator.articles]).value]
    /\ UNCHANGED <<mode, detector, call, run, clusterer, embedder, outside,
                   normalizer, circuit, retry, subscribers>>

NextNews == FindTriggerCall

SpecNews == InitNews /\ [][NextNews]_vars

(***************************************************************************)
(* SpecNormalize: a raw text taken through normalize, and the result taken *)
(* through normalize again.                                                *)
(***************************************************************************)
\* what raw texts are put together from: the marks normalize looks at, an
\* abbreviation and a question starter
Pieces ==
    { <<"[">>, <<"]">>, <<" ">>, <<"?">>, <<".">>, <<"!">>,
      <<"a", "i">>, <<"i", "s">> }

RECURSIVE Joined(_)
Joined(pieces) ==
    IF pieces = <<>> THEN <<>> ELSE Head(pieces) \o Joined(Tail(pieces))

RawTexts == UNION { {Joined(p) : p \in [1..k -> Pieces]} : k \in 0..MaxPieces }

InitNormalize ==
    /\ mode = "normalize"
    /\ NoDetector
    /\ NoCall
    /\ NoRun
    /\ NoClusterer
    /\ NoEmbedder
    /\ NoOutside
    /\ correlator = <<>>
    /\ normalizer \in
         [text : RawTexts, platform : {"reddit", "none"}, calls : {0},
          once : {<<>>}, twice : {<<>>}]
    /\ circuit = <<>>
    /\ retry = <<>>
    /\ subscribers = <<>>

\* once = normalize(text, platform), then twice = normalize(once, platform)
NormalizeCall ==
    /\ mode = "normalize"
    /\ normalizer.calls < 2
    /\ normalizer' =
         IF normalizer.calls = 0
         THEN [normalizer EXCEPT
                 !.calls = 1,
                 !.once = Normalize(normalizer.text, normalizer.platform)]
         ELSE [normalizer EXCEPT
                 !.calls = 2,
                 !.twice = Normalize(normalizer.once, normalizer.platform)]
    /\ UNCHANGED <<mode, detector, call, run, clusterer, embedder, outside,
                   correlator, circuit, retry, subscribers>>

NextNormalize == NormalizeCall

SpecNormalize == InitNormalize /\ [][NextNormalize]_vars

(***************************************************************************)
(* SpecBreaker: concurrent calls of CircuitBreaker.call on one event loop. *)
(* The sections under self._lock hold no await and are one step each; the  *)
(* calls interleave while they await the protected function.               *)
(***************************************************************************)
Callers == 1..MaxCallers

\* CircuitBreaker.failure_threshold, scaled down from 5
FailureThresholds == {1, 2}

InitBreaker ==
    /\ mode = "breaker"
    /\ NoDetector
    /\ NoCall
    /\ NoRun
    /\ NoClusterer
    /\ NoEmbedder
    /\ NoOutside
    /\ correlator = <<>>
    /\ normalizer = <<>>
    /\ circuit \in
         [state : {"closed"}, failures : {0}, last_failure : {0},
          failure_threshold : FailureThresholds, now : {0},
          pc : {[c \in Callers |-> "idle"]},
          entered : {[c \in Callers |-> "none"]}]
    /\ retry = <<>>
    /\ subscribers = <<>>

\* call(func) by caller c up to `await func(...)` (lines 298-305): pc is
\* "func" when the function is awaited, "CircuitOpenError" when the call
\* raised that; entered is the state of the circuit that let the call in
BreakerEnter(c) ==
    /\ mode = "breaker"
    /\ circuit.pc[c] = "idle"
    /\ circuit' =
         IF circuit.state = "open"
         THEN IF circuit.now - circuit.last_failure > ResetTimeout
              THEN [circuit EXCEPT !.state = "half-open",
                                   !.pc[c] = "func",
                                   !.entered[c] = "half-open"]
              ELSE [circuit EXCEPT !.pc[c] = "CircuitOpenError",
                                   !.entered[c] = "none"]
         ELSE [circuit EXCEPT !.pc[c] = "func",
                              !.entered[c] = circuit.state]
    /\ UNCHANGED <<mode, detector, call, run, clusterer, embedder, outside,
                   correlator, normalizer, retry, subscribers>>

\* the function of caller c returns (lines 308-315)
BreakerSuccess(c) ==
    /\ mode = "breaker"
    /\ circuit.pc[c] = "func"
    /\ circuit' =
         IF circuit.state = "half-open"
         THEN [circuit EXCEPT !.state = "closed", !.failures = 0,
                              !.pc[c] = "returned"]
         ELSE [circuit EXCEPT !.pc[c] = "returned"]
    /\ UNCHANGED <<mode, detector, call, run, clusterer, embedder, outside,
                   correlator, normalizer, retry, subscribers>>

\* the function of caller c raises (lines 317-329)
BreakerFailure(c) ==
    /\ mode = "breaker"
    /\ circuit.pc[c] = "func"
    /\ circuit' =
         [circuit EXCEPT
            !.failures = @ + 1,
            !.last_failure = circuit.now,
            !.state = IF circuit.failures + 1 >= circuit.failure_threshold
                      THEN "open" ELSE @,
            !.pc[c] = "raised"]
    /\ UNCHANGED <<mode, detector, call, run, clusterer, embedder, outside,
                   correlator, normalizer, retry, subscribers>>

\* caller c has its result or its exception and may call again
BreakerDone(c) ==
    /\ mode = "breaker"
    /\ circuit.pc[c] \in {"returned", "raised", "CircuitOpenError"}
    /\ circuit' = [circuit EXCEPT !.pc[c] = "idle", !.entered[c] = "none"]
    /\ UNCHANGED <<mode, detector, call, run, clusterer, embedder, outside,
                   correlator, normalizer, retry, subscribers>>

\* time.time() moves on
BreakerTick ==
    /\ mode = "breaker"
    /\ circuit.now < MaxTime
    /\ circuit' = [circuit EXCEPT !.now = @ + 1]
    /\ UNCHANGED <<mode, detector, call, run, clusterer, embedder, outside,
                   correlator, normalizer, retry, subscribers>>

NextBreaker ==
    \/ \E c \in Callers : BreakerEnter(c)
    \/ \E c \in Callers : BreakerSuccess(c)
    \/ \E c \in Callers : BreakerFailure(c)
    \/ \E c \in Callers : BreakerDone(c)
    \/ BreakerTick

SpecBreaker == InitBreaker /\ [][NextBreaker]_vars

(***************************************************************************)
(* SpecRetry: one call of a function wrapped by with_retry.  Waits are in  *)
(* half seconds, so that the jitter (time.time() % 1) * cfg.jitter is 0 or *)
(* one half second.                                                        *)
(***************************************************************************)
RetryableExceptions == {"ConnectionError", "TimeoutError", "asyncio.TimeoutError"}

RetryConfig(max_attempts, min_wait, max_wait) ==
    [max_attempts |-> max_attempts, min_wait |-> min_wait,
     max_wait |-> max_wait, retryable_exceptions |-> RetryableExceptions]

RETRY_CONFIGS ==
    [service \in {"reddit", "stackexchange", "openai", "newsapi", "default"} |->
        CASE service = "reddit" -> RetryConfig(3, 2, 30)
          [] service = "stackexchange" -> RetryConfig(5, 1, 60)
          [] service = "openai" -> RetryConfig(5, 2, 120)
          [] service = "newsapi" -> RetryConfig(3, 1, 30)
          [] OTHER -> RetryConfig(5, 1, 60)]

\* cfg = config or RETRY_CONFIGS.get(service, RETRY_CONFIGS["default"])
RetryCfg(service, given) ==
    IF given # None THEN given
    ELSE IF service \in DOMAIN RETRY_CONFIGS THEN RETRY_CONFIGS[service]
    ELSE RETRY_CONFIGS["default"]

RECURSIVE Pow2(_)
Pow2(k) == IF k = 0 THEN 1 ELSE 2 * Pow2(k - 1)

\* min(cfg.max_wait, cfg.min_wait * (2 ** (attempt - 1))), in half seconds
Backoff(cfg, attempt) ==
    LET grown == cfg.min_wait * Pow2(attempt - 1)
    IN  2 * (IF cfg.max_wait <= grown THEN cfg.max_wait ELSE grown)

IsRetryable_Always(cfg, exc) == TRUE

\* `except cfg.retryable_exceptions as e` catches the exception
IsRetryable(cfg, exc) == exc.type \in cfg.retryable_exceptions

\* what one invocation of the wrapped function does
FuncOutcomes == {"return"} \cup RetryableExceptions \cup {"ValueError"}

InitRetry ==
    /\ mode = "retry"
    /\ NoDetector
    /\ NoCall
    /\ NoRun
    /\ NoClusterer
    /\ NoEmbedder
    /\ NoOutside
    /\ correlator = <<>>
    /\ normalizer = <<>>
    /\ circuit = <<>>
    /\ \E service \in DOMAIN RETRY_CONFIGS \cup {"other"},
          given \in {None} \cup {RetryConfig(n, 1, 60) : n \in 1..MaxAttempts} :
         retry = [service |-> service,
                  cfg |-> RetryCfg(service, given),
                  attempt |-> 0,
                  last_exception |-> None,
                  pc |-> "while",
                  calls |-> <<>>,
                  wait |-> 0,
                  outcome |-> None]
    /\ subscribers = <<>>

\* `while attempt < cfg.max_attempts:` and, past the loop,
\* `raise last_exception`
RetryWhile ==
    /\ mode = "retry"
    /\ retry.pc = "while"
    /\ retry' =
         IF retry.attempt < retry.cfg.max_attempts
         THEN [retry EXCEPT !.pc = "func"]
         ELSE [retry EXCEPT !.pc = "done",
                            !.outcome = [kind |-> "raise",
                                         value |-> retry.last_exception]]
    /\ UNCHANGED <<mode, detector, call, run, clusterer, embedder, outside,
                   correlator, normalizer, circuit, subscribers>>

\* `return await func(*args, **kwargs)` and the two except clauses; the
\* result and the exception of the n-th invocation carry n
RetryInvoke ==
    /\ mode = "retry"
    /\ retry.pc = "func"
    /\ \E result \in FuncOutcomes, jitter \in {0, 1} :
         LET n == Len(retry.calls) + 1
             called == [retry EXCEPT !.calls = Append(@, result)]
             e == [type |-> result, invocation |-> n]
             attempt == retry.attempt + 1
         IN  retry' =
               IF result = "return"
               THEN [called EXCEPT !.pc = "done",
                                   !.outcome = [kind |-> "return",
                                                value |-> [invocation |-> n]]]
               ELSE IF IsRetryable(retry.cfg, e)
               THEN IF attempt >= retry.cfg.max_attempts
                    THEN [called EXCEPT !.attempt = attempt,
                                        !.last_exception = e,
                                        !.pc = "done",
                                        !.outcome = [kind |-> "raise", value |-> e]]
                    ELSE [called EXCEPT !.attempt = attempt,
                                        !.last_exception = e,
                                        !.pc = "sleep",
                                        !.wait = Backoff(retry.cfg, attempt) + jitter]
               ELSE [called EXCEPT !.pc = "done",
                                   !.outcome = [kind |-> "raise", value |-> e]]
    /\ UNCHANGED <<mode, detector, call, run, clusterer, embedder, outside,
                   correlator, normalizer, circuit, subscribers>>

\* `await asyncio.sleep(wait)` is over
RetryWake ==
    /\ mode = "retry"
    /\ retry.pc = "sleep"
    /\ retry' = [retry EXCEPT !.pc = "while", !.wait = 0]
    /\ UNCHANGED <<mode, detector, call, run, clusterer, embedder, outside,
                   correlator, normalizer, circuit, subscribers>>

NextRetry ==
    \/ RetryWhile
    \/ RetryInvoke
    \/ RetryWake

SpecRetry == InitRetry /\ [][NextRetry]_vars

\* the event loop runs the wrapper whenever it can take a step: the awaited
\* function finishes and the sleep ends
SpecRetryLive == SpecRetry /\ WF_vars(NextRetry)

(***************************************************************************)
(* SpecSubscribers: the subscribe, confirm and unsubscribe routes over one *)
(* subscribers table.  gunicorn runs several worker processes; a worker    *)
(* runs the statements of confirm_subscription between its awaits without  *)
(* a break, and the statements of different workers interleave in the      *)
(* database.  The statements of subscribe and of unsubscribe are taken in  *)
(* one step each.  The table's schema is not part of the repository, so    *)
(* the table may or may not have a unique constraint on email.             *)
(***************************************************************************)
Workers == 1..MaxWorkers

\* SQL NULL / Python None in a column
Null == "NULL"

\* secrets.token_urlsafe(32): the n-th token generated
Token(n) == "t" \o ToString(n)

\* _generate_referral_code(): the n-th code generated
ReferralCode(n) == "ci_" \o ToString(n)

Emails == {"ref@x.io", "new@x.io"}

\* the subscriber who refers the others, as subscribe and confirm leave it
ReferrerRow ==
    [email |-> "ref@x.io", status |-> "active", confirmation_token |-> Null,
     unsubscribe_token |-> Token(0), referred_by |-> Null,
     referral_code |-> ReferralCode(0), referral_count |-> 0]

\* table('subscribers').select(...).eq(column, value): ids of the rows
Select(column, value) ==
    {i \in DOMAIN subscribers.rows : subscribers.rows[i][column] = value}

IdleWorker == [pc |-> "idle", id |-> 0, referred_by |-> Null, answer |-> "none"]

InitSubscribers ==
    /\ mode = "subscribers"
    /\ NoDetector
    /\ NoCall
    /\ NoRun
    /\ NoClusterer
    /\ NoEmbedder
    /\ NoOutside
    /\ correlator = <<>>
    /\ normalizer = <<>>
    /\ circuit = <<>>
    /\ retry = <<>>
    /\ subscribers \in
         [rows : {<<ReferrerRow>>},
          unique_email : BOOLEAN,
          tokens : {0},
          codes : {0},
          workers : {[w \in Workers |-> IdleWorker]},
          answer : {"none"},
          activated : {<<0>>},
          assigned : {<<0>>},
          credited : {<<0>>}]

\* POST /subscribe (lines 75-143)
Subscribe(email, referral_code) ==
    /\ mode = "subscribers"
    /\ Len(subscribers.rows) < MaxRows
    /\ subscribers.tokens + 2 <= 2 * MaxRows
    /\ LET existing == Select("email", email)
           confirmation_token == Token(subscribers.tokens + 1)
           unsubscribe_token == Token(subscribers.tokens + 2)
           insert_data ==
               [email |-> email, status |-> "pending_confirmation",
                confirmation_token |-> confirmation_token,
                unsubscribe_token |-> unsubscribe_token,
                referred_by |-> referral_code,
                referral_code |-> Null, referral_count |-> 0]
           inserted ==
               IF subscribers.unique_email /\ existing # {}
               THEN [subscribers EXCEPT !.tokens = @ + 2, !.answer = "500"]
               ELSE [subscribers EXCEPT
                       !.rows = Append(@, insert_data),
                       !.tokens = @ + 2,
                       !.activated = Append(@, 0),
                       !.assigned = Append(@, 0),
                       !.credited = Append(@, 0),
                       !.answer = "pending_confirmation"]
       IN  IF existing = {}
           THEN subscribers' = inserted
           ELSE \E row \in existing :
                  subscribers' =
                    IF subscribers.rows[row].status = "active"
                    THEN [subscribers EXCEPT !.answer = "already_subscribed"]
                    ELSE IF subscribers.rows[row].status = "pending_confirmation"
                    THEN [subscribers EXCEPT !.answer = "pending_confirmation"]
                    ELSE inserted
    /\ UNCHANGED <<mode, detector, call, run, clusterer, embedder, outside,
                   correlator, normalizer, circuit, retry>>

\* POST /confirm/{token} on worker w up to the update (lines 164-187)
ConfirmSelect(w, token) ==
    /\ mode = "subscribers"
    /\ subscribers.workers[w].pc = "idle"
    /\ LET result == Select("confirmation_token", token)
       IN  IF result = {}
           THEN subscribers' =
                  [subscribers EXCEPT !.workers[w] =
                     [IdleWorker EXCEPT !.answer = "404"]]
           ELSE \E id \in result :
                  subscribers' =
                    IF subscribers.rows[id].status = "active"
                    THEN [subscribers EXCEPT !.workers[w] =
                            [IdleWorker EXCEPT !.answer = "Already confirmed!"]]
                    ELSE [subscribers EXCEPT !.workers[w] =
                            [pc |-> "update", id |-> id,
                             referred_by |-> subscribers.rows[id].referred_by,
                             answer |-> "none"]]
    /\ UNCHANGED <<mode, detector, call, run, clusterer, embedder, outside,
                   correlator, normalizer, circuit, retry>>

\* the update of confirm_subscription on worker w (lines 187-194);
\* activated and assigned count the activations and the referral codes of
\* a row
ConfirmUpdate(w) ==
    /\ mode = "subscribers"
    /\ subscribers.workers[w].pc = "update"
    /\ LET id == subscribers.workers[w].id
           referral_code == ReferralCode(subscribers.codes + 1)
       IN  subscribers' =
             [subscribers EXCEPT
                !.rows[id].status = "active",
                !.rows[id].referral_code = referral_code,
                !.rows[id].confirmation_token = Null,
                !.codes = @ + 1,
                !.activated[id] = @ + 1,
                !.assigned[id] = @ + 1,
                !.workers[w] =
                    IF subscribers.workers[w].referred_by # Null
                    THEN [@ EXCEPT !.pc = "credit"]
                    ELSE [IdleWorker EXCEPT !.answer = "You're in!"]]
    /\ UNCHANGED <<mode, detector, call, run, clusterer, embedder, outside,
                   correlator, normalizer, circuit, retry>>

\* the referrer's credit on worker w (lines 201-254): the stored procedure
\* increment_referral_count adds one to the rows with the referral code, or
\* raises, which the handler logs; credited counts the increments made for
\* a row
ConfirmCredit(w) ==
    /\ mode = "subscribers"
    /\ subscribers.workers[w].pc = "credit"
    /\ \E rpc_raises \in BOOLEAN :
         LET id == subscribers.workers[w].id
             referrers == Select("referral_code", subscribers.workers[w].referred_by)
             done == [subscribers EXCEPT !.workers[w] =
                        [IdleWorker EXCEPT !.answer = "You're in!"]]
         IN  subscribers' =
               IF rpc_raises THEN done
               ELSE [done EXCEPT
                       !.rows = [i \in DOMAIN @ |->
                                   IF i \in referrers
                                   THEN [@[i] EXCEPT !.referral_count = @ + 1]
                                   ELSE @[i]],
                       !.credited[id] = @ + 1]
    /\ UNCHANGED <<mode, detector, call, run, clusterer, embedder, outside,
                   correlator, normalizer, circuit, retry>>

\* POST /unsubscribe (lines 273-306)
Unsubscribe(token_or_email) ==
    /\ mode = "subscribers"
    /\ LET by_token == Select("unsubscribe_token", token_or_email)
           result == IF by_token # {} THEN by_token
                     ELSE Select("email", token_or_email)
       IN  IF result = {}
           THEN subscribers' = [subscribers EXCEPT !.answer = "404"]
           ELSE \E id \in result :
                  subscribers' =
                    [subscribers EXCEPT !.rows[id].status = "unsubscribed",
                                        !.answer = "unsubscribed"]
    /\ UNCHANGED <<mode, detector, call, run, clusterer, embedder, outside,
                   correlator, normalizer, circuit, retry>>

\* the tokens a request can carry: those generated so far and one more
KnownTokens == {Token(n) : n \in 0..(subscribers.tokens + 1)}

NextSubscribers ==
    \/ \E email \in Emails, referral_code \in {Null, ReferralCode(0)} :
         Subscribe(email, referral_code)
    \/ \E w \in Workers, token \in KnownTokens : ConfirmSelect(w, token)
    \/ \E w \in Workers : ConfirmUpdate(w)
    \/ \E w \in Workers : ConfirmCredit(w)
    \/ \E token_or_email \in KnownTokens \cup Emails : Unsubscribe(token_or_email)

SpecSubscribers == InitSubscribers /\ [][NextSubscribers]_vars

(***************************************************************************)
(* Spec: a detector driven through its public methods ("api"), or owned by *)
(* one CuriosityPipeline.run ("pipeline").                                 *)
(***************************************************************************)
ListQuestions == { <<"z">>, <<" ", "A", "B", " ">> }
ListEngagements == {8 * EngagementStep, 40 * EngagementStep}

\* clusters as QuestionClusterer._build_cluster makes them
WellFormedClusters ==
    { QuestionCluster(0, q, MIN_CLUSTER_SIZE, pc, te) :
        q \in ListQuestions, pc \in {{1}, {1, 2, 3}}, te \in ListEngagements }
      \cup { QuestionCluster(0, <<"z">>, MIN_CLUSTER_SIZE, {1}, 0) }

\* QuestionCluster(cluster_id, canonical_question) with every default
DefaultCluster == QuestionCluster(0, <<"z">>, 0, {}, 0)

ListClusters == WellFormedClusters \cup {DefaultCluster}

\* cluster ids are unique within a list: the position in it
Numbered(cl) == [i \in DOMAIN cl |-> [cl[i] EXCEPT !.cluster_id = i]]

ListsOver(S) ==
    UNION { {Numbered(cl) : cl \in [1..k -> S]} : k \in 0..MaxClusters }

ClusterLists == ListsOver(ListClusters)

\* QuestionClusterer.cluster returns its clusters by descending engagement
PipelineLists ==
    { cl \in ListsOver(WellFormedClusters) :
        \A i \in 1..(Len(cl) - 1) :
            cl[i].total_engagement >= cl[i + 1].total_engagement }

PickCounts == {1, DEFAULT_PICKS}

\* historical data of a detector built by a caller: none, a smaller or a
\* larger count than this week's under the stored key
ApiHistoricalChoices ==
    {EmptyHist} \cup {[k \in {HistKey} |-> h] : h \in {1, MaxHist}}

\* the configurations of a run: max_signals and include_weird_picks vary
\* for a run that saves, and the default configuration runs dry as well
Configs ==
    [max_signals : {1, DEFAULT_MAX_SIGNALS}, include_weird_picks : BOOLEAN,
     dry_run : {FALSE}]
      \cup {[NoConfig EXCEPT !.dry_run = TRUE]}

\* what the news search answers to the lookups of one run: the same to
\* all, or an article to the first only, or to all but the first
LookupAnswers(looked) ==
    { [i \in looked |-> o] : o \in SearchOutcomes }
      \cup { [i \in looked |-> IF \A j \in looked : i <= j THEN a ELSE b] :
               a, b \in {"error", "article"} }

\* what embed_batch does for the questions of a run: it returns a vector for
\* each, it raises, or it returns a list with an entry left None
EmbedOutcomes == {"ok", "raise", "partial"}

Init ==
    /\ mode \in {"api", "pipeline", "full"}
    /\ threshold \in IF mode = "full" THEN {Pct(DEFAULT_THRESHOLD)} ELSE Thresholds
    /\ historical_data \in IF mode = "api" THEN ApiHistoricalChoices ELSE {EmptyHist}
    /\ max_engagement = 1
    /\ max_count = 1
    /\ op = "idle"
    /\ clusters = <<>>
    /\ count = 0
    /\ raised = FALSE
    /\ signals = <<>>
    /\ stage = CASE mode = "pipeline" -> "ingest"
                 [] mode = "full" -> "create_run"
                 [] OTHER -> "none"
    /\ config \in IF mode = "pipeline" THEN Configs ELSE {NoConfig}
    /\ weird = <<>>
    /\ results = NoResults
    /\ NoClusterer
    /\ NoEmbedder
    /\ NoOutside
    /\ NoServices

\* mutant of DetectEffect: detect keeps this week's counts as history
DetectEffect_KeepsCounts(cl) ==
    /\ clusters' = cl
    /\ max_engagement' = IF cl = <<>> THEN max_engagement ELSE MaxEngagementOf(cl)
    /\ max_count' = IF cl = <<>> THEN max_count ELSE MaxCountOf(cl)
    /\ raised' = AnyRaises(cl)
    /\ signals' = IF AnyRaises(cl) THEN <<>>
                  ELSE DetectResult(cl, threshold, historical_data)
    /\ historical_data' =
         [k \in {GetClusterKey(cl[i]) : i \in DOMAIN cl} |-> 1]
    /\ UNCHANGED threshold

\* the effect of detect(cl) on the detector and on the held call
DetectEffect(cl) ==
    /\ clusters' = cl
    /\ max_engagement' = IF cl = <<>> THEN max_engagement ELSE MaxEngagementOf(cl)
    /\ max_count' = IF cl = <<>> THEN max_count ELSE MaxCountOf(cl)
    /\ raised' = AnyRaises(cl)
    /\ signals' = IF AnyRaises(cl) THEN <<>>
                  ELSE DetectResult(cl, threshold, historical_data)
    /\ UNCHANGED <<threshold, historical_data>>

\* detector.detect(cl)
Detect(cl) ==
    /\ mode = "api"
    /\ op = "idle"
    /\ op' = "detect"
    /\ DetectEffect(cl)
    /\ UNCHANGED <<mode, services, count, run, clusterer, embedder, outside>>

\* detector.get_weird_picks(cl, k)
GetWeirdPicks(cl, k) ==
    /\ mode = "api"
    /\ op = "idle"
    /\ op' = "get_weird_picks"
    /\ clusters' = cl
    /\ count' = k
    /\ raised' = AnyRaises(cl)
    /\ signals' = IF AnyRaises(cl) THEN <<>>
                  ELSE WeirdPicksResult(cl, k, threshold, historical_data,
                                        max_engagement)
    /\ UNCHANGED <<mode, services, detector, run, clusterer, embedder, outside>>

\* the caller drops the result (or the exception) of the call
Return ==
    /\ mode = "api"
    /\ op # "idle"
    /\ op' = "idle"
    /\ clusters' = <<>>
    /\ count' = 0
    /\ raised' = FALSE
    /\ signals' = <<>>
    /\ UNCHANGED <<mode, services, detector, run, clusterer, embedder, outside>>

\* run() step 1: _ingest_all, and the return of line 116 when it brings
\* no question
RunIngest(outcomes) ==
    /\ mode = "pipeline"
    /\ stage = "ingest"
    /\ sources' = outcomes
    /\ LET got == IngestAll(outcomes)
       IN  IF got.raised
           THEN /\ stage' = "failed"
                /\ UNCHANGED <<questions, results>>
           ELSE /\ questions' = got.questions
                /\ results' = [results EXCEPT
                                 !.questions_ingested = Len(got.questions)]
                /\ stage' = IF got.questions = <<>> THEN "done" ELSE "normalize"
    /\ UNCHANGED <<mode, services, detector, call, config, weird, min_cluster_size,
                   labels, embedder, lookups, news_trigger, store>>

\* run() step 2: {**q, "normalized_text": normalize(q["raw_text"], ...)}
\* raises TypeError for a record that is no mapping
RunNormalize ==
    /\ mode = "pipeline"
    /\ stage = "normalize"
    /\ stage' = IF \E i \in DOMAIN questions : ~questions[i].mapping
                THEN "failed" ELSE "embed"
    /\ UNCHANGED <<mode, services, detector, call, config, weird, results, clusterer,
                   embedder, outside>>

\* run() step 3: embed_batch for the normalized texts
RunEmbed(outcome) ==
    /\ mode = "pipeline"
    /\ stage = "embed"
    /\ stage' = IF outcome = "raise" THEN "failed" ELSE "cluster"
    /\ all_embeddings' =
         IF outcome = "raise" THEN all_embeddings
         ELSE [i \in DOMAIN questions |->
                 IF outcome = "partial" /\ i = Len(questions)
                 THEN None ELSE SomeVector]
    /\ UNCHANGED <<mode, services, detector, call, config, weird, results, clusterer,
                   texts, batch_start, outside>>

\* the member counts of the clusters are within the questions clustered
ClusterFits(cl, qs) ==
    LET counts == [i \in DOMAIN cl |-> cl[i].question_count]
        total[i \in 0..Len(cl)] == IF i = 0 THEN 0 ELSE total[i - 1] + counts[i]
    IN  total[Len(cl)] <= Len(qs)

\* run() step 4: the clusterer delivers the clusters; np.array over
\* embeddings with a None among them makes the clustering raise
RunCluster(cl) ==
    /\ mode = "pipeline"
    /\ stage = "cluster"
    /\ IF \E i \in DOMAIN all_embeddings : all_embeddings[i] = None
       THEN /\ stage' = "failed"
            /\ UNCHANGED <<clusters, results>>
       ELSE /\ ClusterFits(cl, questions)
            /\ stage' = "detect"
            /\ clusters' = cl
            /\ results' = [results EXCEPT !.clusters_created = Len(cl)]
    /\ UNCHANGED <<mode, services, detector, op, count, raised, signals, config, weird,
                   clusterer, embedder, outside>>

\* run() step 5
RunDetect ==
    /\ mode = "pipeline"
    /\ stage = "detect"
    /\ op' = "detect"
    /\ DetectEffect(clusters)
    /\ stage' = IF AnyRaises(clusters) THEN "failed" ELSE "correlate"
    /\ results' =
         IF AnyRaises(clusters) THEN results
         ELSE [results EXCEPT !.signals_detected =
                 Len(SelectSeq(DetectResult(clusters, threshold, historical_data),
                               LAMBDA s : s.is_signal))]
    /\ news_trigger' = [i \in DOMAIN signals' |-> None]
    /\ UNCHANGED <<mode, services, count, config, weird, clusterer, embedder, sources,
                   lookups, store>>

\* mutant of Looked: every signal among the first max_signals
Looked_AnySignal(sigs, max_signals) ==
    {i \in DOMAIN sigs : i <= max_signals}

\* the signals step 6 looks news up for
Looked(sigs, max_signals) ==
    {i \in DOMAIN sigs : i <= max_signals /\ sigs[i].is_signal}

\* run() step 6: find_trigger for each is_signal signal among the first
\* max_signals, the search answering outs; api_key is NewsCorrelator.api_key
RunCorrelate(api_key, outs) ==
    /\ mode = "pipeline"
    /\ stage = "correlate"
    /\ LET looked == Looked(signals, config.max_signals)
           found == [i \in looked |->
                       FindTrigger(api_key, signals[i].canonical_question,
                                   SearchNews(outs[i]))]
       IN  /\ lookups' = [i \in DOMAIN signals |->
                            IF i \notin looked THEN "skipped"
                            ELSE IF api_key THEN outs[i] ELSE "no_key"]
           /\ IF \E i \in looked : found[i].raised
              THEN /\ stage' = "failed"
                   /\ UNCHANGED news_trigger
              ELSE /\ stage' = "weird"
                   /\ news_trigger' =
                        [i \in DOMAIN signals |->
                           IF i \in looked THEN found[i].value
                           ELSE news_trigger[i]]
    /\ UNCHANGED <<mode, services, detector, call, config, weird, results, clusterer,
                   embedder, sources, store>>

\* run() step 7
RunWeirdPicks ==
    /\ mode = "pipeline"
    /\ stage = "weird"
    /\ stage' = "save"
    /\ IF config.include_weird_picks
       THEN /\ weird' = WeirdPicksResult(clusters, DEFAULT_PICKS, threshold,
                                         historical_data, max_engagement)
            /\ results' = [results EXCEPT !.weird_picks =
                             [i \in DOMAIN Take(weird', WEIRD_PICKS_SHOWN) |->
                                 ToDict(weird'[i], None)]]
       ELSE UNCHANGED <<weird, results>>
    /\ lookups' = <<>>
    /\ UNCHANGED <<mode, services, detector, call, config, clusterer, embedder, sources,
                   news_trigger, store>>

\* the statements of save_run taken to fail: none (0), the add of the run
\* row, the add behind it, the add of the last row, the commit
FailPoints(rows) == {0, 1, 2, Len(rows), Len(rows) + 1}

\* run() step 8: save_run unless dry_run; configured tells whether
\* DATABASE_URL was set
RunSave(configured) ==
    /\ mode = "pipeline"
    /\ stage = "save"
    /\ op' = "save_run"
    /\ IF config.dry_run
       THEN /\ stage' = "output"
            /\ UNCHANGED <<raised, store>>
       ELSE LET rows == RunRows(results, clusters, signals, news_trigger)
            IN  \E fail_at \in FailPoints(rows) :
                    LET saved == SaveRun(store, rows, configured, fail_at)
                    IN  /\ store' = saved.store
                        /\ raised' = saved.raised
                        /\ stage' = IF saved.raised THEN "failed" ELSE "output"
    /\ UNCHANGED <<mode, services, detector, clusters, count, signals, config, weird,
                   results, clusterer, embedder, sources, lookups, news_trigger>>

\* run() lines 177-181
RunOutput ==
    /\ mode = "pipeline"
    /\ stage = "output"
    /\ stage' = "done"
    /\ results' = [results EXCEPT !.signals =
                     OutputSignals(signals, news_trigger, config.max_signals)]
    /\ UNCHANGED <<mode, services, detector, call, config, weird, clusterer, embedder,
                   outside>>

\* run_full_pipeline step 2: the run row is inserted with status 'running',
\* or the insert raises and the function returns
FullCreateRun(inserted) ==
    /\ mode = "full"
    /\ stage = "create_run"
    /\ stage' = IF inserted THEN "ingest" ELSE "stopped"
    /\ store' = IF inserted THEN <<[table |-> "runs", status |-> "running"]>>
                ELSE store
    /\ UNCHANGED <<mode, services, detector, call, config, weird, results, clusterer,
                   embedder, sources, lookups, news_trigger>>

\* run_full_pipeline steps 3 and 4: the Stack Exchange questions, each
\* turned into a dict by to_dict; the function returns when there is none
FullIngest(n) ==
    /\ mode = "full"
    /\ stage = "ingest"
    /\ questions' = [k \in 1..n |-> IngestRecord(2, k, TRUE)]
    /\ stage' = IF n = 0 THEN "stopped" ELSE "embed"
    /\ UNCHANGED <<mode, services, detector, call, config, weird, results,
                   min_cluster_size, labels, embedder, outside>>

\* run_full_pipeline step 5: embed_batch, not guarded by any try
FullEmbed(outcome) ==
    /\ mode = "full"
    /\ stage = "embed"
    /\ stage' = IF outcome = "raise" THEN "crashed" ELSE "process"
    /\ all_embeddings' =
         IF outcome = "raise" THEN all_embeddings
         ELSE [i \in DOMAIN questions |->
                 IF outcome = "partial" /\ i = Len(questions)
                 THEN None ELSE SomeVector]
    /\ UNCHANGED <<mode, services, detector, call, config, weird, results, clusterer,
                   texts, batch_start, outside>>

\* run_full_pipeline steps 6 and 7: a row for each question whose insert
\* does not raise (list(None) does), then the clustering, which raises when
\* an embedding is None.  The cluster and signal rows of steps 8 and 9 are
\* not modelled.
FullProcess ==
    /\ mode = "full"
    /\ stage = "process"
    /\ store' = store \o
         [k \in 1..Cardinality({i \in DOMAIN all_embeddings :
                                   all_embeddings[i] # None}) |->
            [table |-> "questions", cluster_index |-> None, member |-> k]]
    /\ stage' = IF \E i \in DOMAIN all_embeddings : all_embeddings[i] = None
                THEN "crashed" ELSE "finalize"
    /\ UNCHANGED <<mode, services, detector, call, config, weird, results, clusterer,
                   embedder, sources, lookups, news_trigger>>

\* run_full_pipeline step 10: the run row is updated to 'completed'
FullFinalize ==
    /\ mode = "full"
    /\ stage = "finalize"
    /\ stage' = "stopped"
    /\ store' = [store EXCEPT ![1].status = "completed"]
    /\ UNCHANGED <<mode, services, detector, call, config, weird, results, clusterer,
                   embedder, sources, lookups, news_trigger>>

Next ==
    \/ \E cl \in ClusterLists : Detect(cl)
    \/ \E cl \in ClusterLists, k \in PickCounts : GetWeirdPicks(cl, k)
    \/ Return
    \/ \E a \in IngestOutcomes(1), b \in IngestOutcomes(2) : RunIngest(<<a, b>>)
    \/ RunNormalize
    \/ \E outcome \in EmbedOutcomes : RunEmbed(outcome)
    \/ \E cl \in PipelineLists : RunCluster(cl)
    \/ RunDetect
    \/ \E api_key \in BOOLEAN,
          outs \in LookupAnswers(Looked(signals, config.max_signals)) :
            RunCorrelate(api_key, outs)
    \/ RunWeirdPicks
    \/ \E configured \in BOOLEAN : RunSave(configured)
    \/ RunOutput
    \/ \E inserted \in BOOLEAN : FullCreateRun(inserted)
    \/ \E n \in {0, MIN_CLUSTER_SIZE} : FullIngest(n)
    \/ \E outcome \in EmbedOutcomes : FullEmbed(outcome)
    \/ FullProcess
    \/ FullFinalize

Spec == Init /\ [][Next]_vars


(***************************************************************************)
(* Properties.                                                             *)
(***************************************************************************)
Range(f) == {f[i] : i \in DOMAIN f}

\* every signal the state holds
HeldSignals == Range(signals) \cup Range(weird)

\* the call in progress has returned a list
Returned(name) == op = name /\ ~raised

\* C1: every signal has 0 <= final_score <= 1 and its tier is the bucket of
\* that score: breakout iff >= 0.85, strong iff in [0.75, 0.85), signal iff
\* in [0.70, 0.75), noise iff < 0.70.
C1_ScoreInRangeTierIsBucket ==
    \A s \in HeldSignals :
        LET x == s.final_score
        IN  /\ RLeq(Zero, x) /\ RLeq(x, One)
            /\ s.tier \in {"breakout", "strong", "signal", "noise"}
            /\ s.tier = "breakout" <=> RLeq(R(85, 100), x)
            /\ s.tier = "strong" <=> RLeq(R(75, 100), x) /\ RLess(x, R(85, 100))
            /\ s.tier = "signal" <=> RLeq(R(70, 100), x) /\ RLess(x, R(75, 100))
            /\ s.tier = "noise" <=> RLess(x, R(70, 100))

\* detect has returned signals of all four tiers, one of them clamped to 1
C1_Witness ==
    /\ Returned("detect")
    /\ \E s \in Range(signals) : s.tier = "strong"
    /\ \E s \in Range(signals) : s.tier = "noise"

C1_WitnessClamped ==
    /\ Returned("detect")
    /\ \E s \in Range(signals) : s.final_score = One /\ s.tier = "breakout"

\* C2: detect returns one signal per input cluster (same cluster ids), by
\* non-increasing final_score, equal scores in input order.
C2_DetectOnePerClusterSortedStable ==
    Returned("detect") =>
        /\ Len(signals) = Len(clusters)
        /\ \A c \in Range(clusters) :
              Cardinality({i \in DOMAIN signals :
                              signals[i].cluster_id = c.cluster_id}) = 1
        /\ \A i, j \in DOMAIN signals :
              i < j =>
                /\ RLeq(signals[j].final_score, signals[i].final_score)
                /\ signals[i].final_score = signals[j].final_score
                      => signals[i].cluster_id < signals[j].cluster_id

\* detect has returned a list with a tie and a list it had to reorder
C2_Witness ==
    /\ Returned("detect")
    /\ Len(signals) >= 2
    /\ signals[1].final_score = signals[2].final_score

C2_WitnessReordered ==
    /\ Returned("detect")
    /\ Len(signals) >= 2
    /\ signals[1].cluster_id > signals[2].cluster_id

\* the signal detect(cl) computes for the cluster with this id
DetectSignalFor(cl, id) ==
    LET all == ScoreAll(cl, threshold, historical_data, MaxEngagementOf(cl))
    IN  all[CHOOSE i \in DOMAIN all : all[i].cluster_id = id]

\* C3: the score and tier of a cluster depend on the cluster (in its list)
\* and the historical data only, not on earlier calls: what
\* get_weird_picks(cl) returns for a cluster is what detect(cl) computes
\* for it.
C3_ScoreIndependentOfEarlierCalls ==
    Returned("get_weird_picks") =>
        \A s \in Range(signals) :
            /\ s.final_score = DetectSignalFor(clusters, s.cluster_id).final_score
            /\ s.tier = DetectSignalFor(clusters, s.cluster_id).tier

\* C4: get_weird_picks returns no signal with is_signal, and a finished run
\* publishes no cluster both as a weird pick and as a signal.
C4_WeirdPicksExcludeSignals ==
    /\ Returned("get_weird_picks") => \A s \in Range(signals) : ~s.is_signal
    /\ \A s \in Range(weird) : ~s.is_signal
    /\ stage = "done" =>
          \A i \in DOMAIN results.weird_picks, j \in DOMAIN results.signals :
              /\ results.weird_picks[i] = ToDict(weird[i], None)
              /\ results.signals[j] = ToDict(signals[j], news_trigger[j])
              /\ weird[i].cluster_id # signals[j].cluster_id

\* a finished run that published signals and weird picks
C4_Witness ==
    /\ stage = "done"
    /\ results.weird_picks # <<>>
    /\ results.signals # <<>>


\* the scored cluster and its signal, once _score_cluster has returned
Scored == clusters[1]
Built == signals[1]

InUnit(x) == RLeq(Zero, x) /\ RLeq(x, One)

\* C5: every component score lies in [0,1], and weirdness_bonus is 0.20 for
\* three or more platforms, else 0.10 for more than 50 engagement per
\* member, else 0.
C5_ComponentsInRange ==
    Returned("_score_cluster") =>
        /\ InUnit(Built.velocity_score)
        /\ InUnit(Built.cross_platform_score)
        /\ InUnit(Built.engagement_score)
        /\ InUnit(Built.novelty_score)
        /\ Built.weirdness_bonus =
              IF Cardinality(Scored.platform_counts) >= 3 THEN R(20, 100)
              ELSE IF Scored.total_engagement > 50 * Scored.question_count
                   THEN R(10, 100)
                   ELSE Zero

\* C6: is_signal iff final_score >= threshold; the tier is the same under
\* every threshold; under the default 0.70, is_signal iff tier is not noise.
C6_IsSignalIffAtThreshold ==
    Returned("_score_cluster") =>
        /\ Built.is_signal <=> RLeq(threshold, Built.final_score)
        /\ \A t \in Thresholds :
              ScoreCluster(Scored, t, historical_data, max_engagement).tier
                  = Built.tier
        /\ threshold = R(70, 100) => (Built.is_signal <=> Built.tier # "noise")

\* a stricter bar than the tier thresholds: a tiered signal that is no signal
C6_Witness ==
    /\ Returned("_score_cluster")
    /\ threshold = R(90, 100)
    /\ Built.tier = "strong"
    /\ ~Built.is_signal

\* the canonical questions whose key is the stored key
MatchingQuestions == { <<"a", "b">>, <<" ", "A", "B", " ">>, LongQuestion }

\* the historical member count the scored cluster is matched with
MatchedCount ==
    IF HistKey \in DOMAIN historical_data
          /\ Scored.canonical_question \in MatchingQuestions
    THEN historical_data[HistKey]
    ELSE 0

\* C7: against a historical count h > 0 the velocity score never decreases
\* when the current count grows, is 0 at -50% and below, 0.5 at 0% and 1 at
\* +100% and above.
C7_VelocityMonotone ==
    Returned("_score_cluster") /\ MatchedCount > 0 =>
        LET h == MatchedCount
            c1 == Scored.question_count
        IN  /\ \A c2 \in c1..(2 * MaxHist + 1) :
                  RLeq(Built.velocity_score,
                       CalcVelocity([Scored EXCEPT !.question_count = c2],
                                    historical_data)[1])
            /\ 2 * c1 <= h => Built.velocity_score = Zero
            /\ c1 = h => Built.velocity_score = R(1, 2)
            /\ c1 >= 2 * h => Built.velocity_score = One

\* a shrinking cluster strictly between -50% and 0% has been scored
C7_Witness ==
    /\ Returned("_score_cluster")
    /\ MatchedCount > 0
    /\ 2 * Scored.question_count > MatchedCount
    /\ Scored.question_count < MatchedCount
    /\ RLess(Zero, Built.velocity_score)
    /\ RLess(Built.velocity_score, R(1, 2))

\* C8: a cluster whose key has no historical count gets velocity_score 0.8
\* and velocity_pct 100, whatever its member count.
C8_NewClusterVelocity ==
    Returned("_score_cluster") /\ MatchedCount = 0 =>
        /\ Built.velocity_score = R(8, 10)
        /\ Built.velocity_pct = R(100, 1)

\* a large cluster whose question shares only a prefix with the stored key
C8_Witness ==
    /\ Returned("_score_cluster")
    /\ historical_data # EmptyHist
    /\ historical_data[HistKey] > 0
    /\ Scored.canonical_question = <<"a", "b", "z">>
    /\ Scored.question_count = MaxCount
    /\ Built.velocity_score = R(8, 10)

\* the worked example has been scored
ExampleScored ==
    /\ Returned("_score_cluster")
    /\ Scored = ExampleCluster
    /\ historical_data = ExampleHist
    /\ max_engagement = ExampleMaxEngagement

\* C9 as stated: the example scores velocity 1.0, cross-platform 1.0,
\* engagement 0.5, weirdness 0.2, novelty 1.0, final 1.0, tier breakout.
C9_ExampleAsStated ==
    ExampleScored =>
        /\ Built.velocity_pct = R(120, 1)
        /\ Built.velocity_score = One
        /\ Built.cross_platform_score = One
        /\ Built.engagement_score = R(1, 2)
        /\ Built.weirdness_bonus = R(2, 10)
        /\ Built.novelty_score = One
        /\ Built.final_score = One
        /\ Built.tier = "breakout"

\* C9 amended: the example has a historical match, so novelty is 0.3 and
\* the final score is 0.35 + 0.25 + 0.10 + 0.06 + 0.20 = 0.96, tier breakout.
C9_ExampleAmended ==
    ExampleScored =>
        /\ Built.velocity_pct = R(120, 1)
        /\ Built.velocity_score = One
        /\ Built.cross_platform_score = One
        /\ Built.engagement_score = R(1, 2)
        /\ Built.weirdness_bonus = R(2, 10)
        /\ Built.novelty_score = R(3, 10)
        /\ Built.final_score = R(96, 100)
        /\ Built.tier = "breakout"

C9_Witness == ExampleScored /\ Built.tier = "breakout"

\* C10: detect and get_weird_picks never raise, and return an empty list
\* for an empty list.
C10_NeverRaises ==
    /\ ~raised
    /\ op \in {"detect", "get_weird_picks"} /\ clusters = <<>> => signals = <<>>

\* the call of cluster() has returned
Clustered == mode = "cluster" /\ op = "cluster"

\* C11: every cluster that cluster() returns has at least min_cluster_size
\* member questions, and a list of fewer than min_cluster_size questions
\* (the empty list too) yields no cluster.
C11_ClusterSizeFloor ==
    Clustered =>
        /\ \A c \in Range(clusters) : Len(c.questions) >= min_cluster_size
        /\ Len(questions) < min_cluster_size => clusters = <<>>

\* two clusters came back, one of them of just min_cluster_size members
C11_Witness ==
    /\ Clustered
    /\ Len(clusters) = 2
    /\ \E c \in Range(clusters) : Len(c.questions) = min_cluster_size

\* a list that is not empty but too short came back without a cluster
C11_WitnessShort ==
    /\ Clustered
    /\ questions # <<>>
    /\ Len(questions) < min_cluster_size

\* the places (cluster, position) at which question q is a member
PlacesOf(q) ==
    { p \in (DOMAIN clusters) \X (DOMAIN questions) :
        /\ p[2] \in DOMAIN clusters[p[1]].questions
        /\ clusters[p[1]].questions[p[2]] = q }

\* C12: over the clusters of one cluster() call every input question is a
\* member at most once, every member carries the label of its cluster, and
\* a question labelled -1 is a member of none.
C12_MembershipDisjoint ==
    Clustered =>
        /\ \A i \in DOMAIN questions : Cardinality(PlacesOf(questions[i])) <= 1
        /\ \A c \in Range(clusters) : \A k \in DOMAIN c.questions :
              \E i \in DOMAIN questions :
                  questions[i] = c.questions[k] /\ labels[i] = c.cluster_id
        /\ \A i \in DOMAIN labels :
              labels[i] = -1 => PlacesOf(questions[i]) = {}

\* a cluster came back and two noise questions were left out
C12_Witness ==
    /\ Clustered
    /\ clusters # <<>>
    /\ Cardinality({i \in DOMAIN labels : labels[i] = -1}) = 2

\* two clusters came back, no question in both
C12_WitnessTwo ==
    /\ Clustered
    /\ Len(clusters) = 2
    /\ Len(clusters[1].questions) + Len(clusters[2].questions) = Len(questions)

\* the sum of coordinate k over the embeddings of the members m
CoordinateSum(m, k) ==
    LET sum[i \in 0..Len(m)] ==
            IF i = 0 THEN 0 ELSE sum[i - 1] + m[i].embedding[k]
    IN  sum[Len(m)]

\* C13: the centroid of every returned cluster is the coordinate-wise mean
\* of the embeddings of its members, and its canonical_question is the
\* normalized_text of a member whose embedding is nearest to that centroid.
C13_CentroidAndCanonical ==
    Clustered =>
        \A c \in Range(clusters) :
            /\ DOMAIN c.centroid = DOMAIN c.questions[1].embedding
            /\ \A k \in DOMAIN c.centroid :
                  RMul(c.centroid[k], R(Len(c.questions), 1))
                      = R(CoordinateSum(c.questions, k), 1)
            /\ \E i \in DOMAIN c.questions :
                  /\ c.questions[i].normalized_text = c.canonical_question
                  /\ \A j \in DOMAIN c.questions :
                        RLeq(SquaredNorm(c.questions[i].embedding, c.centroid),
                             SquaredNorm(c.questions[j].embedding, c.centroid))

\* a cluster whose centroid is no member's embedding and whose canonical
\* question is not its first member's
C13_Witness ==
    /\ Clustered
    /\ \E c \in Range(clusters) :
          /\ c.canonical_question # c.questions[1].normalized_text
          /\ \A i \in DOMAIN c.questions :
                c.questions[i].embedding
                    # [k \in DOMAIN c.centroid |-> c.centroid[k].n]

\* the call of embed_batch has returned a list
Embedded == mode = "embed" /\ op = "embed_batch" /\ ~raised

\* C14: embed_batch returns a list as long as texts in which the vector at
\* position i is the one the service reported for texts[i], whatever the
\* order of the items of a response and however many batches the texts
\* span; embed_batch([]) returns [].  (An entry the service reported
\* nothing for is the subject of C15.)
C14_EmbedBatchKeepsOrder ==
    Embedded =>
        /\ Len(all_embeddings) = Len(texts)
        /\ \A i \in DOMAIN all_embeddings :
              all_embeddings[i] # None
                  => all_embeddings[i] = ServiceEmbedding(texts[i])

\* more than one batch of different texts, every one with its vector
C14_Witness ==
    /\ Embedded
    /\ Len(texts) > BatchSize
    /\ texts[1] # texts[2]
    /\ \A i \in DOMAIN all_embeddings : all_embeddings[i] # None

\* the empty list came back for the empty list
C14_WitnessEmpty == Embedded /\ texts = <<>> /\ all_embeddings = <<>>

\* C15: embed_batch has no partial success: a list it returns holds an
\* embedding for every text.
C15_NoPartialSuccess ==
    Embedded => \A i \in DOMAIN all_embeddings : all_embeddings[i] # None

\* C16: an ingester that raises does not abort the run: step 1 ends in the
\* normalize stage (or in the return for no questions) with the records of
\* every ingester that did not raise, all of them and in ingester order,
\* and questions_ingested is their number.
C16_IngestFailureAbsorbed ==
    [][ (mode = "pipeline" /\ stage = "ingest") =>
          /\ stage' \in {"normalize", "done"}
          /\ questions' =
               (IF sources'[1].raised THEN <<>> ELSE sources'[1].records)
                 \o (IF sources'[2].raised THEN <<>> ELSE sources'[2].records)
          /\ results'.questions_ingested = Len(questions')
          /\ stage' = "normalize" <=> questions' # <<>> ]_vars

\* one ingester raised and the records of the other went on to normalize
C16_Witness ==
    /\ mode = "pipeline"
    /\ stage = "normalize"
    /\ sources[1].raised
    /\ ~sources[2].raised
    /\ questions = sources[2].records
    /\ questions # <<>>

\* the status of the run row in the store, "none" without such a row
RunStatus ==
    IF \E i \in DOMAIN store : store[i].table = "runs"
    THEN store[CHOOSE i \in DOMAIN store : store[i].table = "runs"].status
    ELSE "none"

\* C17: a run that a failing stage aborted has status 'failed', and no run
\* is left in status 'running' once the pipeline has stopped.
C17_StoppedRunIsMarked ==
    /\ (mode = "pipeline" /\ stage = "failed") => RunStatus = "failed"
    /\ (mode = "full" /\ stage \in {"stopped", "crashed"})
          => RunStatus # "running"

\* C18: a failed run of CuriosityPipeline persists nothing, and the store
\* never holds a part of a run: it is empty or holds the run row with the
\* rows of all its clusters, questions and signals.
C18_NoPartialPersistence ==
    mode = "pipeline" =>
        /\ stage = "failed" => store = <<>>
        /\ stage \notin {"output", "done"} => store = <<>>
        /\ store # <<>> =>
              store = RunRows(results, clusters, signals, news_trigger)

\* save_run raised part-way in a run that saves
C18_Witness ==
    /\ mode = "pipeline"
    /\ stage = "failed"
    /\ op = "save_run"
    /\ raised
    /\ signals # <<>>

\* a run was saved whole
C18_WitnessSaved ==
    /\ mode = "pipeline"
    /\ stage = "done"
    /\ Len(store) > 1

\* C19: in a completed run results['signals'] holds only is_signal signals
\* by non-increasing score and is the first min(max_signals,
\* signals_detected) signals of the ranked list, signals_detected is the
\* number of is_signal signals over all clusters and clusters_created the
\* number of clusters scored.
C19_CompletedRunConsistent ==
    (mode = "pipeline" /\ stage = "done") =>
        LET out == results.signals
            detected == Cardinality({i \in DOMAIN signals : signals[i].is_signal})
            m == IF config.max_signals < detected THEN config.max_signals
                 ELSE detected
        IN  /\ \A i \in DOMAIN out : out[i].is_signal
            /\ \A i, j \in DOMAIN out : i < j => RLeq(out[j].score, out[i].score)
            /\ Len(out) = m
            /\ \A i \in 1..m : out[i] = ToDict(signals[i], news_trigger[i])
            /\ results.signals_detected = detected
            /\ results.clusters_created = Len(clusters)
            /\ Len(signals) = Len(clusters)

\* a completed run that detected more signals than it publishes
C19_Witness ==
    /\ mode = "pipeline"
    /\ stage = "done"
    /\ results.signals # <<>>
    /\ results.signals_detected > config.max_signals

\* a completed run that scored a cluster which is no signal
C19_WitnessNoise ==
    /\ mode = "pipeline"
    /\ stage = "done"
    /\ results.signals # <<>>
    /\ results.clusters_created > results.signals_detected

\* the lookups that find no news or fail
FailedLookups == {"no_key", "error", "status", "null_field"}

\* C20: find_trigger never raises: without an API key, with a request that
\* fails or answers another status than 200, and with an exception while
\* the result is handled, it returns None, and step 6 of the run leaves
\* that signal's news_trigger None and goes on to step 7.
C20_NewsFailuresNeverPropagate ==
    [][ (mode = "pipeline" /\ stage = "correlate") =>
          /\ stage' = "weird"
          /\ \A i \in DOMAIN lookups' :
                lookups'[i] \in FailedLookups => news_trigger'[i] = None ]_vars

\* a run went on to step 7 with a failed lookup and a found trigger
C20_Witness ==
    /\ mode = "pipeline"
    /\ stage = "weird"
    /\ \E i \in DOMAIN lookups :
          lookups[i] = "error" /\ news_trigger[i] = None
    /\ \E i \in DOMAIN lookups :
          lookups[i] = "article" /\ news_trigger[i] # None

\* the article of the answer that find_trigger returned
ReturnedArticles ==
    { i \in DOMAIN correlator.articles :
        /\ correlator.value # None
        /\ correlator.value.url = correlator.articles[i].url
        /\ correlator.value.headline = correlator.articles[i].title }

\* C21: when the search returns several articles, find_trigger returns the
\* one of the highest term-overlap relevance among them.
C21_MostRelevantArticle ==
    (mode = "news" /\ correlator.returned /\ correlator.api_key
       /\ correlator.articles # <<>>) =>
        \E i \in ReturnedArticles :
            \A j \in DOMAIN correlator.articles :
                RLeq(CalcRelevance(correlator.question, correlator.articles[j]),
                     CalcRelevance(correlator.question, correlator.articles[i]))

\* a step in which detect or get_weird_picks scores clusters
ScoringStep ==
    \/ mode = "api" /\ op = "idle" /\ op' \in {"detect", "get_weird_picks"}
    \/ mode = "pipeline" /\ stage \in {"detect", "weird"}

\* C22: detect and get_weird_picks modify neither the detector's
\* historical_data nor the clusters they are given, over any sequence of
\* calls: the mapping is afterwards what it was, and the clusters the
\* pipeline holds are afterwards what the clusterer returned.
C22_ScoringReadsOnly ==
    [][ ScoringStep =>
          /\ historical_data' = historical_data
          /\ mode = "pipeline" => clusters' = clusters ]_vars

\* get_weird_picks returned picks on a detector with historical data
C22_Witness ==
    /\ mode = "api"
    /\ op = "get_weird_picks"
    /\ signals # <<>>
    /\ historical_data # EmptyHist

\* a run scored its clusters in step 5 and again in step 7
C22_WitnessRun ==
    /\ mode = "pipeline"
    /\ stage = "save"
    /\ signals # <<>>
    /\ weird # <<>>

\* a step of a run between the return of detect and the end of the run
AfterDetect ==
    mode = "pipeline" /\ stage \in {"correlate", "weird", "save", "output"}

\* C23: after detect has made the signals of a run the pipeline changes no
\* field of a signal but news_trigger, and it sets news_trigger on no
\* signal that is not is_signal or lies behind the first max_signals of
\* the ranked list.
C23_OnlyNewsTriggerChanges ==
    [][ AfterDetect =>
          /\ signals' = signals
          /\ \A i \in DOMAIN news_trigger' :
                news_trigger'[i] # None =>
                    /\ i <= config.max_signals
                    /\ signals[i].is_signal ]_vars

\* a run that set news_trigger on its first signal and left it None on a
\* signal behind max_signals and on a scored cluster that is no signal
C23_Witness ==
    /\ mode = "pipeline"
    /\ stage = "save"
    /\ Len(signals) >= 2
    /\ news_trigger[1] # None
    /\ news_trigger[2] = None
    /\ signals[2].is_signal

\* news_trigger stayed None on a cluster scored below the threshold
C23_WitnessNoise ==
    /\ mode = "pipeline"
    /\ stage = "save"
    /\ \E i \in DOMAIN signals :
          i <= config.max_signals /\ ~signals[i].is_signal
    /\ \E i \in DOMAIN signals : news_trigger[i] # None

\* velocity scored the signal as a new topic
NewByVelocity(s) ==
    s.velocity_score = Pct(NEW_CLUSTER_VELOCITY)
        /\ s.velocity_pct = R(NEW_CLUSTER_PCT, 1)

\* C28: novelty and velocity agree on what a new topic is: novelty_score is
\* 1.0 only with velocity_score 0.8 and velocity_pct 100.0, a cluster that
\* velocity scores 0.8 / +100% has novelty_score 1.0, and so no signal has
\* velocity_score 1.0 together with novelty_score 1.0.
C28_NoveltyAgreesWithVelocity ==
    Returned("_score_cluster") =>
        /\ Built.novelty_score = One => NewByVelocity(Built)
        /\ NewByVelocity(Built) => Built.novelty_score = One
        /\ ~(Built.velocity_score = One /\ Built.novelty_score = One)

\* C29: in a run of CuriosityPipeline the detector holds no historical
\* data, and every signal of the run has velocity_score 0.8, velocity_pct
\* 100.0 and novelty_score 1.0.
C29_PipelineScoresEveryTopicAsNew ==
    mode = "pipeline" =>
        /\ historical_data = EmptyHist
        /\ \A s \in HeldSignals :
              NewByVelocity(s) /\ s.novelty_score = One

\* a completed run with signals and weird picks
C29_Witness ==
    /\ mode = "pipeline"
    /\ stage = "done"
    /\ Len(signals) >= 2
    /\ weird # <<>>

\* C24: normalize is idempotent: a second pass over normalized text
\* changes nothing.
C24_NormalizeIdempotent ==
    (mode = "normalize" /\ normalizer.calls = 2) =>
        normalizer.twice = normalizer.once

\* the calls that await the protected function and were let in by a
\* circuit in state st
Executing(st) ==
    {c \in Callers : circuit.pc[c] = "func" /\ circuit.entered[c] = st}

\* C25: in the half-open state the circuit breaker lets one test call
\* execute the protected function until that call has succeeded or failed,
\* and an open circuit whose timeout has not elapsed lets no call execute
\* it.
C25_HalfOpenAllowsOneCall ==
    mode = "breaker" =>
        /\ Cardinality(Executing("half-open")) <= 1
        /\ Executing("open") = {}

\* what the wrapper has done so far agrees with C26: no more than
\* max_attempts invocations, only the last of them anything but a retryable
\* failure, and once the wrapper is done its outcome is that of the last
\* invocation
RetrySafe ==
    LET n == Len(retry.calls)
        last == retry.calls[n]
    IN  /\ n <= retry.cfg.max_attempts
        /\ \A i \in 1..(n - 1) : retry.calls[i] \in RetryableExceptions
        /\ (n > 0 /\ last \notin RetryableExceptions) => retry.pc = "done"
        /\ retry.pc = "done" =>
             /\ n >= 1
             /\ last = "return" =>
                  retry.outcome =
                    [kind |-> "return", value |-> [invocation |-> n]]
             /\ last # "return" =>
                  /\ retry.outcome =
                       [kind |-> "raise",
                        value |-> [type |-> last, invocation |-> n]]
                  /\ last \in RetryableExceptions => n = retry.cfg.max_attempts

\* C26: a function wrapped by with_retry (max_attempts >= 1) always
\* terminates after at most max_attempts invocations: it returns the result
\* of the first successful invocation, re-raises a non-retryable exception
\* after the invocation that threw it with no further attempt, and raises
\* the last exception after max_attempts retryable failures.
C26_RetryTerminates ==
    mode = "retry" => ([]RetrySafe /\ <>(retry.pc = "done"))

C26_Witness ==
    /\ mode = "retry"
    /\ retry.pc = "done"
    /\ retry.cfg.max_attempts = 3
    /\ retry.calls = <<"TimeoutError", "ConnectionError", "asyncio.TimeoutError">>
    /\ retry.outcome.kind = "raise"

\* C27: a confirmation token is one-time use: over any number and
\* interleaving of confirm requests with its token, on any workers, a
\* subscriber is activated once, gets one referral code, and the referrer's
\* count is incremented at most once for it.
C27_ConfirmTokenOneTimeUse ==
    mode = "subscribers" =>
        \A id \in DOMAIN subscribers.rows :
            /\ subscribers.activated[id] <= 1
            /\ subscribers.assigned[id] <= 1
            /\ subscribers.credited[id] <= 1

\* a request turns an unsubscribed row into an active one
Reactivated ==
    /\ mode = "subscribers"
    /\ \E id \in DOMAIN subscribers.rows :
         /\ subscribers.rows[id].status = "unsubscribed"
         /\ subscribers'.rows[id].status = "active"

\* C30: once a subscriber's status is 'unsubscribed', no confirm request
\* with a confirmation token issued before the unsubscribe sets the status
\* back to 'active' (a row's only confirmation token is the one it was
\* inserted with).
C30_UnsubscribeIsFinal == [][~Reactivated]_vars

=============================================================================
